---- MODULE Spec2Model ----
(***************************************************************************)
(* Auto Link Title (obsidian-auto-link-title): the placeholder protocol of *)
(* convertUrlToTitledLink (src/src/main.ts) over an editor buffer, and the *)
(* title-fetch orchestrator fetchUrlTitle in its two variants (the plugin  *)
(* method of src/src/main.ts and the function of src/src/title-fetcher.ts).*)
(*                                                                         *)
(* Strings are sequences of characters; a character is a TLA+ string.      *)
(* Some characters stand for a run of the real text that the code never    *)
(* looks inside ("https://", "h.io").                                      *)
(***************************************************************************)
EXTENDS Integers, Sequences, FiniteSets, TLC

VARIABLES
    buffer,     \* editor.getValue(): the whole document
    selFrom,    \* start offset of the editor selection
    selTo,      \* end offset of the editor selection (= selFrom: a cursor)
    settings,   \* this.settings of the plugin
    inv,        \* the invocations of convertUrlToTitledLink
    notices,    \* number of Notice objects shown to the user
    edits,      \* number of user edits so far (bounded)
    fx,         \* one call of fetchUrlTitle (specification SpecFetch)
    scr,        \* one call of a scraper's getPageTitle (specification SpecScrape)
    ui,         \* the host: navigator.onLine and the events handed to the plugin
    call        \* one call of a text function (specification SpecText)

vars == <<buffer, selFrom, selTo, settings, inv, notices, edits, fx, scr, ui, call>>

(***************************************************************************)
(* Bounds of the model.                                                    *)
(***************************************************************************)
NumInv == 2          \* invocations that can be in flight together
BaseLen == 1         \* characters of the base phrase that are modelled
HashAlphabet == 2    \* characters of the hash alphabet that the last draw ranges over
MaxEdits == 1        \* user edits interleaved with the invocations

(***************************************************************************)
(* Program constants.                                                      *)
(***************************************************************************)
HashLen == 4                   \* createBlockHash: for (i = 0; i < 4; i++)
maxInvisibleCharacters == 2    \* getBetterPasteId

NL == "\n"
CR == "\r"
SP == " "
BS == "\\"
ZWSP == "ZWSP"                 \* the one character U+200B
BT == "BT"                     \* the one character backtick

Min(a, b) == IF a < b THEN a ELSE b
Max(a, b) == IF a > b THEN a ELSE b

\* i18n.placeholder.fetching ("Fetching Title"), cut to BaseLen characters
FetchingPhrase == <<"F", "e", "t", "c", "h", "i", "n", "g", " ", "T", "i", "t", "l", "e">>
Base == SubSeq(FetchingPhrase, 1, Min(BaseLen, Len(FetchingPhrase)))

\* createBlockHash: characters = "abcdefghijklmnopqrstuvwxyz0123456789"
HashCharacters == <<"a", "b", "c", "d", "e", "f", "g", "h", "i", "j", "k", "l", "m",
                    "n", "o", "p", "q", "r", "s", "t", "u", "v", "w", "x", "y", "z",
                    "0", "1", "2", "3", "4", "5", "6", "7", "8", "9">>
HashChars == {HashCharacters[k] : k \in 1..Min(HashAlphabet, Len(HashCharacters))}

(***************************************************************************)
(* String primitives of the JavaScript runtime.                            *)
(***************************************************************************)
\* String.prototype.indexOf(t, from): first index >= from (0-based), or -1
IndexOfFrom(s, t, from) ==
    LET hits == {k \in Max(from, 0)..(Len(s) - Len(t)) : SubSeq(s, k + 1, k + Len(t)) = t}
    IN IF hits = {} THEN -1 ELSE CHOOSE k \in hits : \A j \in hits : k <= j

IndexOf(s, t) == IndexOfFrom(s, t, 0)

\* String.prototype.includes
Includes(s, t) == IndexOf(s, t) >= 0

\* String.prototype.substr(start, length)
Substr(s, start, length) ==
    SubSeq(s, start + 1, Min(Len(s), start + Max(length, 0)))

\* String.prototype.slice(0, n)
Slice0(s, n) == SubSeq(s, 1, Min(Len(s), n))

RECURSIVE Repeat(_, _)
Repeat(c, n) == IF n <= 0 THEN <<>> ELSE <<c>> \o Repeat(c, n - 1)

WhiteSpace == {SP, NL, CR, "\t"}

RECURSIVE TrimStart(_)
TrimStart(s) == IF s # <<>> /\ Head(s) \in WhiteSpace THEN TrimStart(Tail(s)) ELSE s

RECURSIVE TrimEnd(_)
TrimEnd(s) ==
    IF s # <<>> /\ s[Len(s)] \in WhiteSpace THEN TrimEnd(SubSeq(s, 1, Len(s) - 1)) ELSE s

\* String.prototype.trim
Trim(s) == TrimEnd(TrimStart(s))

(***************************************************************************)
(* escapeMarkdown and shortTitle (src/src/main.ts).                        *)
(***************************************************************************)
Unescapable == {"*", "_", BT, "~", BS, "[", "]"}
Escapable == {"*", "_", BT, "|", "<", ">", "~", BS, "[", "]"}

\* first replace: a backslash followed by an unescapable character loses the backslash
RECURSIVE Unescape(_)
Unescape(s) ==
    IF s = <<>> THEN <<>>
    ELSE IF Head(s) = BS /\ Len(s) >= 2 /\ s[2] \in Unescapable
         THEN <<s[2]>> \o Unescape(SubSeq(s, 3, Len(s)))
         ELSE <<Head(s)>> \o Unescape(Tail(s))

\* second replace: every escapable character gets a backslash in front
RECURSIVE Escape(_)
Escape(s) ==
    IF s = <<>> THEN <<>>
    ELSE (IF Head(s) \in Escapable THEN <<BS, Head(s)>> ELSE <<Head(s)>>) \o Escape(Tail(s))

\* the variable _escaped of line 329: the second replace without the bar
RECURSIVE EscapeNoBar(_)
EscapeNoBar(s) ==
    IF s = <<>> THEN <<>>
    ELSE (IF Head(s) \in Escapable \ {"|"} THEN <<BS, Head(s)>> ELSE <<Head(s)>>)
         \o EscapeNoBar(Tail(s))

\* escapeMarkdown that returns _escaped
escapeMarkdownNoBar(text) == EscapeNoBar(Unescape(text))

escapeMarkdown(text) == Escape(Unescape(text))

\* shortTitle that keeps a title only when it is shorter than the limit
shortTitleStrict(title, maximumTitleLength) ==
    IF maximumTitleLength = 0 THEN title
    ELSE IF Len(title) < maximumTitleLength THEN title
    ELSE Slice0(title, maximumTitleLength) \o <<".", ".", ".">>

shortTitle(title, maximumTitleLength) ==
    IF maximumTitleLength = 0 THEN title
    ELSE IF Len(title) < maximumTitleLength + 3 THEN title
    ELSE Slice0(title, maximumTitleLength) \o <<".", ".", ".">>

(***************************************************************************)
(* getPasteId, getBetterPasteId, createBlockHash (src/src/main.ts).        *)
(* Math.random is a nondeterministic choice: the operators give the set of *)
(* strings a call can return.                                              *)
(***************************************************************************)
RECURSIVE Interleave(_, _, _)
Interleave(base, count, i) ==
    IF i > Len(base) THEN <<>>
    ELSE <<base[i]>> \o Repeat(ZWSP, count[i]) \o Interleave(base, count, i + 1)

\* Interleave with the invisible characters in front of each character
RECURSIVE InterleaveBefore(_, _, _)
InterleaveBefore(base, count, i) ==
    IF i > Len(base) THEN <<>>
    ELSE Repeat(ZWSP, count[i]) \o <<base[i]>> \o InterleaveBefore(base, count, i + 1)

\* getBetterPasteId that appends the invisible characters first
getBetterPasteIdBefore(base) ==
    {InterleaveBefore(base, count, 1) : count \in [1..Len(base) -> 0..maxInvisibleCharacters]}

getBetterPasteId(base) ==
    {Interleave(base, count, 1) : count \in [1..Len(base) -> 0..maxInvisibleCharacters]}

\* the draws of Math.random: the last character ranges over HashChars, the
\* characters before it are the first of the alphabet
createBlockHash ==
    {h \in [1..HashLen -> HashChars] : \A k \in 1..(HashLen - 1) : h[k] = HashCharacters[1]}

getPasteId(useBetterPasteId) ==
    IF useBetterPasteId
    THEN getBetterPasteId(Base)
    ELSE {Base \o <<"#">> \o h : h \in createBlockHash}

(***************************************************************************)
(* isBlacklisted (src/src/main.ts) and new URL(url).hostname.              *)
(***************************************************************************)
\* String.prototype.split on the separator characters seps
RECURSIVE Split(_, _)
Split(s, seps) ==
    LET cut == {k \in 1..Len(s) : s[k] \in seps}
    IN IF cut = {} THEN <<s>>
       ELSE LET k == CHOOSE k \in cut : \A j \in cut : k <= j
            IN <<SubSeq(s, 1, k - 1)>> \o Split(SubSeq(s, k + 1, Len(s)), seps)

\* blacklistOf with the split of onload: on commas only
blacklistOfCommaOnly(websiteBlacklist) ==
    LET parts == Split(websiteBlacklist, {","})
        trimmed == [k \in 1..Len(parts) |-> Trim(parts[k])]
    IN SelectSeq(trimmed, LAMBDA e : Len(e) > 0)

blacklistOf(websiteBlacklist) ==
    LET parts == Split(websiteBlacklist, {",", NL})
        trimmed == [k \in 1..Len(parts) |-> Trim(parts[k])]
    IN SelectSeq(trimmed, LAMBDA e : Len(e) > 0)

isBlacklisted(url, websiteBlacklist) ==
    LET blacklist == blacklistOf(websiteBlacklist)
    IN \E k \in 1..Len(blacklist) : Includes(url, blacklist[k])

Schemes == {"http://", "https://"}

\* new URL(url) throws a TypeError for a string without a scheme
UrlParses(url) == Len(url) >= 2 /\ url[1] \in Schemes

\* new URL(url).hostname
Hostname(url) == url[2]

(***************************************************************************)
(* getEditorPositionFromIndex (src/src/editor-enhancements.ts).            *)
(***************************************************************************)
\* the for loop over substr.indexOf of the line break, from r + 1
RECURSIVE NewlineLoop(_, _, _, _)
NewlineLoop(substr, r, l, offset) ==
    LET r2 == IndexOfFrom(substr, <<NL>>, r + 1)
    IN IF r2 = -1 THEN [l |-> l, offset |-> offset]
       ELSE NewlineLoop(substr, r2, l + 1, r2)

\* getEditorPositionFromIndex without the line loop: every index is on line 0
getEditorPositionFromIndexFlat(content, index) ==
    [line |-> 0, ch |-> Len(Substr(content, 0, index))]

\* getEditorPositionFromIndex that takes index characters from offset on
getEditorPositionFromIndexLong(content, index) ==
    LET substr == Substr(content, 0, index)
        end == NewlineLoop(substr, -1, 0, -1)
        offset == end.offset + 1
        ch == Len(Substr(content, offset, index))
    IN [line |-> end.l, ch |-> ch]

getEditorPositionFromIndex(content, index) ==
    LET substr == Substr(content, 0, index)
        end == NewlineLoop(substr, -1, 0, -1)
        offset == end.offset + 1
        ch == Len(Substr(content, offset, index - offset))
    IN [line |-> end.l, ch |-> ch]

(***************************************************************************)
(* The editor (the Editor of Obsidian over the document).                  *)
(***************************************************************************)
\* offset just after the line-th line break of doc (0 for line 0)
RECURSIVE LineStart(_, _, _)
LineStart(doc, line, from) ==
    IF line = 0 THEN from
    ELSE LET r == IndexOfFrom(doc, <<NL>>, from)
         IN IF r = -1 THEN Len(doc) ELSE LineStart(doc, line - 1, r + 1)

LineEnd(doc, start) ==
    LET r == IndexOfFrom(doc, <<NL>>, start)
    IN IF r = -1 THEN Len(doc) ELSE r

\* editor.posToOffset: a position beyond the end of its line is clipped to it
posToOffset(doc, pos) ==
    LET start == LineStart(doc, pos.line, 0)
    IN Min(start + pos.ch, LineEnd(doc, start))

Splice(doc, from, to, text) ==
    SubSeq(doc, 1, from) \o text \o SubSeq(doc, to + 1, Len(doc))

\* a position of the old document mapped through a replacement of [from, to)
MapOffset(p, from, to, insLen) ==
    IF p <= from THEN p
    ELSE IF p >= to THEN p - (to - from) + insLen
    ELSE from + insLen

\* editor.replaceSelection(text): the cursor ends after the inserted text
replaceSelection(text) ==
    [buffer |-> Splice(buffer, selFrom, selTo, text),
     selFrom |-> selFrom + Len(text),
     selTo |-> selFrom + Len(text)]

\* editor.replaceRange(text, startPos, endPos)
replaceRange(text, startPos, endPos) ==
    LET from == posToOffset(buffer, startPos)
        to == Max(from, posToOffset(buffer, endPos))
    IN [buffer |-> Splice(buffer, from, to, text),
        selFrom |-> MapOffset(selFrom, from, to, Len(text)),
        selTo |-> MapOffset(selTo, from, to, Len(text))]

(***************************************************************************)
(* Inputs.                                                                 *)
(***************************************************************************)
Inv == 1..NumInv

\* URLs that CheckIf.isUrl accepts: with a scheme, and with the www. prefix only
Urls == {<<"https://", "h.io">>, <<"https://", "w.io">>, <<"www.", "w.io">>}

\* what fetchUrlTitle of main.ts can resolve with for url: the title of the page
Titles(url) == {<<"[">> \o SubSeq(url, 2, Len(url)) \o <<"]">>}

\* settings.websiteBlacklist as the user typed it
WebsiteBlacklist == <<SP, "w.io", ",", NL, "x.io", SP>>

MaximumTitleLengths == {0, 1}

\* what the user types
UserChars == {NL}

\* the document before the first paste: the user wrote the phrase themselves
InitialDocument == Base \o <<NL>>

DefaultSettings ==
    [useBetterPasteId |-> FALSE,
     maximumTitleLength |-> 0,
     websiteBlacklist |-> <<>>,
     linkPreviewApiKey |-> <<>>,
     useNewScraper |-> FALSE,
     enhanceDefaultPaste |-> TRUE,
     shouldPreserveSelectionAsTitle |-> FALSE,
     enhanceDropEvents |-> TRUE]

IdleInvocation ==
    [pc |-> "idle", url |-> <<>>, pasteId |-> <<>>, title |-> <<>>, log |-> <<>>]

NoFetch == [pc |-> "none"]

NoScrape == [pc |-> "none"]

\* the host while no event is modelled: online, nothing handed to the plugin
NoUi == [onLine |-> TRUE, events |-> <<>>]

NoCall == [pc |-> "none"]

Init ==
    /\ buffer = InitialDocument
    /\ selFrom = Len(InitialDocument)
    /\ selTo = Len(InitialDocument)
    /\ \E better \in BOOLEAN, n \in MaximumTitleLengths :
           settings = [DefaultSettings EXCEPT !.useBetterPasteId = better,
                                              !.maximumTitleLength = n,
                                              !.websiteBlacklist = WebsiteBlacklist]
    /\ inv = [i \in Inv |-> IdleInvocation]
    /\ notices = 0
    /\ edits = 0
    /\ fx = NoFetch
    /\ scr = NoScrape
    /\ ui = NoUi
    /\ call = NoCall

(***************************************************************************)
(* convertUrlToTitledLink (src/src/main.ts), one action per stretch of     *)
(* code between two suspension points.                                     *)
(***************************************************************************)
\* an entry point calls convertUrlToTitledLink(editor, url): the call runs up
\* to await this.isBlacklisted(url), which awaits loadSettings
Call(i, url) ==
    /\ inv[i].pc = "idle"
    /\ \A j \in Inv : j < i => inv[j].pc # "idle"    \* invocations are numbered in call order
    /\ inv' = [inv EXCEPT ![i].pc = "awaitBlacklist", ![i].url = url]
    /\ UNCHANGED <<buffer, selFrom, selTo, settings, notices, edits, fx, scr, ui, call>>

\* isBlacklisted resolved with true: lines 292-294
InsertDomainLink(i) ==
    LET url == inv[i].url IN
    /\ inv[i].pc = "awaitBlacklist"
    /\ isBlacklisted(url, settings.websiteBlacklist)
    /\ IF UrlParses(url)
       THEN LET ed == replaceSelection(<<"[", Hostname(url), "]", "(">> \o url \o <<")">>)
            IN /\ buffer' = ed.buffer
               /\ selFrom' = ed.selFrom
               /\ selTo' = ed.selTo
               /\ inv' = [inv EXCEPT ![i].pc = "done",
                                     ![i].log = Append(@, "domain")]
       ELSE \* new URL(url) throws: the promise of the invocation rejects
            /\ inv' = [inv EXCEPT ![i].pc = "rejected"]
            /\ UNCHANGED <<buffer, selFrom, selTo>>
    /\ UNCHANGED <<settings, notices, edits, fx, scr, ui, call>>

\* InsertPlaceholder with the fetch started before the placeholder is written
InsertPlaceholderLate(i) ==
    LET url == inv[i].url IN
    /\ inv[i].pc = "awaitBlacklist"
    /\ ~isBlacklisted(url, settings.websiteBlacklist)
    /\ \E pasteId \in getPasteId(settings.useBetterPasteId) :
           LET ed == replaceSelection(<<"[">> \o pasteId \o <<"]", "(">> \o url \o <<")">>)
           IN /\ buffer' = ed.buffer
              /\ selFrom' = ed.selFrom
              /\ selTo' = ed.selTo
              /\ inv' = [inv EXCEPT ![i].pc = "fetching",
                                    ![i].pasteId = pasteId,
                                    ![i].log = @ \o <<"request", "insert">>]
    /\ UNCHANGED <<settings, notices, edits, fx, scr, ui, call>>

\* isBlacklisted resolved with false: lines 298-304, up to await this.fetchUrlTitle(url).
\* fetchUrlTitle is entered synchronously, so the first request of the fetch is
\* issued here, after the write.
InsertPlaceholder(i) ==
    LET url == inv[i].url IN
    /\ inv[i].pc = "awaitBlacklist"
    /\ ~isBlacklisted(url, settings.websiteBlacklist)
    /\ \E pasteId \in getPasteId(settings.useBetterPasteId) :
           LET ed == replaceSelection(<<"[">> \o pasteId \o <<"]", "(">> \o url \o <<")">>)
           IN /\ buffer' = ed.buffer
              /\ selFrom' = ed.selFrom
              /\ selTo' = ed.selTo
              /\ inv' = [inv EXCEPT ![i].pc = "fetching",
                                    ![i].pasteId = pasteId,
                                    ![i].log = @ \o <<"insert", "request">>]
    /\ UNCHANGED <<settings, notices, edits, fx, scr, ui, call>>

\* ApplyTitle without the test start < 0: the range is replaced in any case
ApplyTitleUnguarded(i, title) ==
    LET pasteId == inv[i].pasteId
        shortenedTitle == shortTitle(escapeMarkdown(title), settings.maximumTitleLength)
        start == IndexOf(buffer, pasteId)
        ed == replaceRange(shortenedTitle,
                           getEditorPositionFromIndex(buffer, start),
                           getEditorPositionFromIndex(buffer, start + Len(pasteId)))
    IN
    /\ inv[i].pc = "fetching"
    /\ buffer' = ed.buffer
    /\ selFrom' = ed.selFrom
    /\ selTo' = ed.selTo
    /\ inv' = [inv EXCEPT ![i].pc = "done", ![i].title = title,
                          ![i].log = Append(@, IF start < 0 THEN "bail" ELSE "replace")]
    /\ UNCHANGED <<settings, notices, edits, fx, scr, ui, call>>

\* fetchUrlTitle resolved with title: lines 305-319
ApplyTitle(i, title) ==
    LET pasteId == inv[i].pasteId
        escapedTitle == escapeMarkdown(title)
        shortenedTitle == shortTitle(escapedTitle, settings.maximumTitleLength)
        text == buffer
        start == IndexOf(text, pasteId)
    IN
    /\ inv[i].pc = "fetching"
    /\ IF start < 0
       THEN \* console.log only
            /\ inv' = [inv EXCEPT ![i].pc = "done", ![i].title = title,
                                  ![i].log = Append(@, "bail")]
            /\ UNCHANGED <<buffer, selFrom, selTo>>
       ELSE LET end == start + Len(pasteId)
                startPos == getEditorPositionFromIndex(text, start)
                endPos == getEditorPositionFromIndex(text, end)
                ed == replaceRange(shortenedTitle, startPos, endPos)
            IN /\ buffer' = ed.buffer
               /\ selFrom' = ed.selFrom
               /\ selTo' = ed.selTo
               /\ inv' = [inv EXCEPT ![i].pc = "done", ![i].title = title,
                                     ![i].log = Append(@, "replace")]
    /\ UNCHANGED <<settings, notices, edits, fx, scr, ui, call>>

(***************************************************************************)
(* The user, editing while invocations are in flight.                      *)
(***************************************************************************)
InFlight == \E i \in Inv : inv[i].pc \in {"awaitBlacklist", "fetching"}

UserType(p, c) ==
    /\ edits < MaxEdits
    /\ InFlight
    /\ p \in 0..Len(buffer)
    /\ buffer' = Splice(buffer, p, p, <<c>>)
    /\ selFrom' = p + 1
    /\ selTo' = p + 1
    /\ edits' = edits + 1
    /\ UNCHANGED <<settings, inv, notices, fx, scr, ui, call>>

UserDelete(p) ==
    /\ edits < MaxEdits
    /\ InFlight
    /\ p \in 1..Len(buffer)
    /\ buffer' = Splice(buffer, p - 1, p, <<>>)
    /\ selFrom' = p - 1
    /\ selTo' = p - 1
    /\ edits' = edits + 1
    /\ UNCHANGED <<settings, inv, notices, fx, scr, ui, call>>

UserMoveCursor(p) ==
    /\ edits < MaxEdits
    /\ InFlight
    /\ p \in 0..Len(buffer)
    /\ <<p, p>> # <<selFrom, selTo>>
    /\ selFrom' = p
    /\ selTo' = p
    /\ edits' = edits + 1
    /\ UNCHANGED <<buffer, settings, inv, notices, fx, scr, ui, call>>

MaxDocument == Len(InitialDocument) + NumInv * (6 + HashLen + 3 * BaseLen) + MaxEdits

UserEdits ==
    \/ \E p \in 0..MaxDocument, c \in UserChars : UserType(p, c)
    \/ \E p \in 1..MaxDocument : UserDelete(p)
    \/ \E p \in 0..MaxDocument : UserMoveCursor(p)

\* one invocation and the user
NextEdit ==
    \/ \E url \in Urls : Call(1, url)
    \/ InsertDomainLink(1)
    \/ InsertPlaceholder(1)
    \/ \E title \in Titles(inv[1].url) : ApplyTitle(1, title)
    \/ UserEdits

SpecEdit == Init /\ [][NextEdit]_vars

\* the invocations of convertUrlToTitledLink
Invocations ==
    \/ \E i \in Inv, url \in Urls : Call(i, url)
    \/ \E i \in Inv : InsertDomainLink(i)
    \/ \E i \in Inv : InsertPlaceholder(i)
    \/ \E i \in Inv : \E title \in Titles(inv[i].url) : ApplyTitle(i, title)

\* several invocations, no user edit in between
NextPaste == Invocations

SpecPaste == Init /\ [][NextPaste]_vars

\* several invocations and the user
Next ==
    \/ Invocations
    \/ UserEdits

Spec == Init /\ [][Next]_vars

(***************************************************************************)
(* fetchUrlTitle and fetchUrlTitleViaLinkPreview: the plugin methods of    *)
(* src/src/main.ts (variant "main") and the functions of                   *)
(* src/src/title-fetcher.ts, lines 106-164 (variant "fetcher").            *)
(***************************************************************************)
MaxTitleLen == 2     \* bound: length of the strings the strategies return

ApiKeyLength == 32   \* apiKey.length === 32

\* i18n.notices (English locale)
titleUnavailable ==
    <<"T", "i", "t", "l", "e", " ", "U", "n", "a", "v", "a", "i", "l", "a", "b", "l", "e", " ", "|",
      " ", "S", "i", "t", "e", " ", "U", "n", "r", "e", "a", "c", "h", "a", "b", "l", "e">>
errorFetching ==
    <<"E", "r", "r", "o", "r", " ", "f", "e", "t", "c", "h", "i", "n", "g", " ", "t", "i", "t", "l", "e">>

\* JavaScript values
Str(s) == [t |-> "string", s |-> s]
Undefined == [t |-> "undefined"]
Number5 == [t |-> "number"]        \* a truthy value without a replace method
None == [t |-> "none"]             \* not called / not settled

Truthy(v) == IF v.t = "string" THEN v.s # <<>> ELSE v.t = "number"

\* completions of a call
Return(v) == [ok |-> TRUE, value |-> v]
Throw == [ok |-> FALSE]

TitleChars == {"a", SP, NL, CR}

RECURSIVE StringsUpTo(_)
StringsUpTo(n) ==
    IF n = 0 THEN {<<>>}
    ELSE LET shorter == StringsUpTo(n - 1)
         IN shorter \cup {Append(s, c) : s \in {x \in shorter : Len(x) = n - 1}, c \in TitleChars}

TitleStrings == StringsUpTo(MaxTitleLen)

\* settings.linkPreviewApiKey: not set, malformed, well-formed
ApiKeys == {<<>>, Repeat("k", ApiKeyLength - 1), Repeat("k", ApiKeyLength)}

\* how the request of fetchUrlTitleViaLinkPreview can end
ApiOutcomes ==
    {[kind |-> "fetchRejects"], [kind |-> "jsonRejects"], [kind |-> "nullData"]}
    \cup {[kind |-> "data", title |-> v] :
             v \in {Str(s) : s \in TitleStrings} \cup {Undefined, Number5}}

\* how a scraper (getPageTitle, getElectronPageTitle) can end
ScraperOutcomes == {Return(Str(s)) : s \in TitleStrings} \cup {Throw}

\* title.replace(/(\r\n|\n|\r)/gm, "")
RemoveNewlines(s) == SelectSeq(s, LAMBDA c : c \notin {NL, CR})

\* the value fetchUrlTitleViaLinkPreview resolves with once its request has ended:
\* the try block returns data.title, the catch block returns ""
linkPreviewReturn(outcome) ==
    IF outcome.kind = "data" THEN outcome.title ELSE Str(<<>>)

\* main.ts line 399 / title-fetcher.ts line 158
postProcess(title) ==
    IF title.t # "string" THEN Throw
    ELSE LET s == Trim(RemoveNewlines(title.s))
         IN Return(Str(IF s = <<>> THEN titleUnavailable ELSE s))

\* title-fetcher.ts line 147
postProcessShortCircuit(title) ==
    IF title.t # "string" THEN Throw
    ELSE Return(Str(Trim(RemoveNewlines(title.s))))

\* tryCatch without the catch block: the exception rejects the promise
tryCatchMissing(completion) ==
    IF completion.ok
    THEN [pc |-> "resolved", result |-> completion.value]
    ELSE [pc |-> "rejected", result |-> None]

\* the try/catch of fetchUrlTitle: what the call settles with
tryCatch(completion) ==
    IF completion.ok
    THEN [pc |-> "resolved", result |-> completion.value]
    ELSE [pc |-> "resolved", result |-> Str(errorFetching)]

\* scraperOf with the two branches swapped
scraperOfSwapped(useNewScraper) == IF useNewScraper THEN "electron" ELSE "http"

\* the scraper the settings select
scraperOf(useNewScraper) == IF useNewScraper THEN "http" ELSE "electron"

\* issuesRequest with the test of a key being set instead of the length test
issuesRequestAnyKey(apiKey) == Len(apiKey) > 0

\* whether the call of fetchUrlTitleViaLinkPreview issues its request
issuesRequest(apiKey) == Len(apiKey) = ApiKeyLength

\* whether fetchUrlTitle calls fetchUrlTitleViaLinkPreview at all
triesLinkPreview(variant, apiKey) ==
    IF variant = "main" THEN TRUE ELSE apiKey # <<>>

\* fallsBack without the test of the title: the scraper always runs
fallsBackAlways(variant, title) == TRUE

\* whether fetchUrlTitle goes on to the scraper after the metadata API returned title
fallsBack(variant, title) ==
    IF variant = "main" THEN title = Str(<<>>) ELSE ~Truthy(title)

\* fetchUrlTitle continues with the scraper: the call of the selected scraper
callScraper(f) ==
    [f EXCEPT !.pc = "awaitScraper",
              !.calls = Append(@, scraperOf(settings.useNewScraper))]

\* fetchUrlTitle settles
settle(f, completion) ==
    LET end == tryCatch(completion)
    IN [f EXCEPT !.pc = end.pc, !.result = end.result]

InitFetch ==
    /\ buffer = InitialDocument
    /\ selFrom = Len(InitialDocument)
    /\ selTo = Len(InitialDocument)
    /\ \E key \in ApiKeys, new \in BOOLEAN :
           settings = [DefaultSettings EXCEPT !.linkPreviewApiKey = key,
                                              !.useNewScraper = new]
    /\ inv = [i \in Inv |-> IdleInvocation]
    /\ notices = 0
    /\ edits = 0
    /\ \E variant \in {"main", "fetcher"} :
           fx = [pc |-> "ready", variant |-> variant, calls |-> <<>>, requests |-> 0,
                 apiResult |-> None, scraperResult |-> None, result |-> None]
    /\ scr = NoScrape
    /\ ui = NoUi
    /\ call = NoCall

\* fetchUrlTitle(url) is called and runs to its first request
FetchStart ==
    /\ fx.pc = "ready"
    /\ LET key == settings.linkPreviewApiKey IN
       IF triesLinkPreview(fx.variant, key)
       THEN LET called == [fx EXCEPT !.calls = Append(@, "linkpreview")]
            IN IF issuesRequest(key)
               THEN fx' = [called EXCEPT !.pc = "awaitApi", !.requests = @ + 1]
               ELSE \* returned "" without a request
                    fx' = callScraper([called EXCEPT !.apiResult = Str(<<>>)])
       ELSE fx' = callScraper(fx)
    /\ UNCHANGED <<buffer, selFrom, selTo, settings, inv, notices, edits, scr, ui, call>>

\* the request of the metadata API ends; fetchUrlTitle runs on to the scraper or returns
ApiSettles(outcome) ==
    /\ fx.pc = "awaitApi"
    /\ LET title == linkPreviewReturn(outcome)
           got == [fx EXCEPT !.apiResult = title]
       IN IF fallsBack(fx.variant, title)
          THEN fx' = callScraper(got)
          ELSE IF fx.variant = "main"
               THEN fx' = settle(got, postProcess(title))
               ELSE fx' = settle(got, postProcessShortCircuit(title))
    /\ UNCHANGED <<buffer, selFrom, selTo, settings, inv, notices, edits, scr, ui, call>>

\* the scraper ends; fetchUrlTitle returns
ScraperSettles(outcome) ==
    /\ fx.pc = "awaitScraper"
    /\ LET got == [fx EXCEPT !.scraperResult = outcome]
       IN IF outcome.ok
          THEN fx' = settle(got, postProcess(outcome.value))
          ELSE fx' = settle(got, Throw)
    /\ UNCHANGED <<buffer, selFrom, selTo, settings, inv, notices, edits, scr, ui, call>>

NextFetch ==
    \/ FetchStart
    \/ \E outcome \in ApiOutcomes : ApiSettles(outcome)
    \/ \E outcome \in ScraperOutcomes : ScraperSettles(outcome)

SpecFetch == InitFetch /\ [][NextFetch]_vars

(***************************************************************************)
(* Properties of fetchUrlTitle (specification SpecFetch).                  *)
(***************************************************************************)
Resolved == fx.pc = "resolved"

ScraperCalls == SelectSeq(fx.calls, LAMBDA c : c \in {"http", "electron"})

\* the post-processing of section 4.4: newlines out, trimmed, the message if empty
Stripped(s) == Trim(SelectSeq(s, LAMBDA c : c # NL /\ c # CR))
PostProcessed(s) == IF Stripped(s) = <<>> THEN titleUnavailable ELSE Stripped(s)

\* C6: the string fetchUrlTitle resolves with is never empty, whether the title
\* came from the metadata API or from a scraper.
C6_ResultNonEmpty ==
    Resolved => fx.result # Str(<<>>)

\* C7: fetchUrlTitle never rejects; it resolves with a string whatever the
\* strategies did (a string, a non-string value, an exception), and with the
\* error-fetching message when the scraper threw.
C7_ResolvesWithString ==
    /\ fx.pc # "rejected"
    /\ Resolved => /\ fx.result.t = "string"
                   /\ fx.scraperResult = Throw => fx.result = Str(errorFetching)

\* C7 witness: the metadata API answered without a title, the scraper threw
C7_Witness ==
    Resolved /\ fx.apiResult = Undefined /\ fx.scraperResult = Throw

\* C7 witness of the non-string case: a title that is no string ended the call
C7_WitnessNonString ==
    Resolved /\ fx.apiResult = Number5 /\ fx.result = Str(errorFetching)

C9_ExactlyOneScraper ==
    /\ Len(ScraperCalls) <= 1
    /\ \A k \in 1..Len(fx.calls) :
           fx.calls[k] = "linkpreview" => \A j \in 1..(k - 1) : fx.calls[j] = "linkpreview"
    /\ (Resolved /\ fx.apiResult \in {None, Str(<<>>)})
       => ScraperCalls = <<IF settings.useNewScraper THEN "http" ELSE "electron">>

\* C9 witness: the metadata API was asked, returned "", and the scraper ran
C9_Witness ==
    Resolved /\ fx.requests = 1 /\ fx.apiResult = Str(<<>>) /\ Len(ScraperCalls) = 1

\* C10: when the metadata API yields no title, the result is the result of the
\* selected scraper, post-processed; an answer without a title never becomes
\* the error-fetching message.
C10_FallbackResult ==
    (Resolved /\ fx.apiResult \in {Str(<<>>), Undefined})
    => /\ fx.scraperResult # None
       /\ fx.scraperResult.ok
          => fx.result = Str(PostProcessed(fx.scraperResult.value.s))
       /\ fx.result = Str(errorFetching) => fx.scraperResult = Throw

(***************************************************************************)
(* Properties of the placeholder protocol (specification Spec).            *)
(***************************************************************************)
\* the step of invocation i in which its fetch resolved
Resolves(i) == inv[i].pc = "fetching" /\ inv'[i].pc # "fetching"

Logged(i, e) == \E k \in 1..Len(inv[i].log) : inv[i].log[k] = e

\* C1: when the fetch resolves and the buffer contains the token, exactly the
\* span of its first occurrence is replaced by shortTitle(escapeMarkdown(title));
\* every character before and after that span stays as it was.
C1_ReplacesExactSpan ==
    [][\A i \in Inv :
           (Resolves(i) /\ Includes(buffer, inv[i].pasteId))
           => LET start == IndexOf(buffer, inv[i].pasteId)
                  end == start + Len(inv[i].pasteId)
                  new == shortTitle(escapeMarkdown(inv'[i].title), settings.maximumTitleLength)
              IN /\ SubSeq(buffer', 1, start) = SubSeq(buffer, 1, start)
                 /\ SubSeq(buffer', start + 1, start + Len(new)) = new
                 /\ SubSeq(buffer', start + Len(new) + 1, Len(buffer'))
                        = SubSeq(buffer, end + 1, Len(buffer))
                 /\ Len(buffer') = Len(buffer) - Len(inv[i].pasteId) + Len(new)]_vars

\* C1 witness: a title was applied after the user had edited the document
C1_Witness ==
    \E i \in Inv : Logged(i, "replace") /\ edits > 0 /\ settings.maximumTitleLength > 0

\* C2: when the token is not in the buffer as the fetch resolves, nothing is
\* written, no notice is shown and the invocation ends normally.
C2_AbandonsSilently ==
    [][\A i \in Inv :
           (Resolves(i) /\ ~Includes(buffer, inv[i].pasteId))
           => /\ buffer' = buffer
              /\ notices' = notices
              /\ inv'[i].pc = "done"]_vars

\* C2 witness: an invocation ended without finding its token
C2_Witness ==
    \E i \in Inv : Logged(i, "bail") /\ ~Includes(buffer, inv[i].pasteId)

\* C3: in each invocation the placeholder is written before the first request
\* of the fetch, and the title is applied only after the placeholder was written.
C3_InsertBeforeFetch ==
    \A i \in Inv : \A k \in 1..Len(inv[i].log) :
        inv[i].log[k] \in {"request", "replace", "bail"}
        => \E j \in 1..(k - 1) : inv[i].log[j] = "insert"

\* C3 witness: two invocations interleaved, one of them applied its title
C3_Witness ==
    /\ inv[1].pc = "fetching"
    /\ inv[2].log = <<"insert", "request", "replace">>
    /\ edits > 0

\* C4: two invocations with different tokens never touch each other's
\* placeholder: whatever the order of completion, both links end up carrying
\* their own title. (Stated for runs without user edits and tokens that the
\* document did not contain before.)
OwnLink(i) ==
    <<"[">> \o shortTitle(escapeMarkdown(inv[i].title), settings.maximumTitleLength)
            \o <<"]", "(">> \o inv[i].url \o <<")">>

C4_OwnTitles ==
    \A i, j \in Inv :
        (/\ i # j
         /\ inv[i].pc = "done" /\ inv[j].pc = "done"
         /\ Logged(i, "insert") /\ Logged(j, "insert")
         /\ inv[i].pasteId # inv[j].pasteId
         /\ ~Includes(InitialDocument, inv[i].pasteId)
         /\ ~Includes(InitialDocument, inv[j].pasteId)
         /\ edits = 0)
        => /\ Logged(i, "replace")
           /\ Includes(buffer, OwnLink(i))
           /\ ~Includes(buffer, inv[i].pasteId)

\* C5: no token getPasteId produces is the base phrase itself, so a title never
\* replaces the phrase where the user wrote it.
C5_TokenDiffersFromBase ==
    \A i \in Inv : Logged(i, "insert") => inv[i].pasteId # Base

(***************************************************************************)
(* Properties of fetchUrlTitleViaLinkPreview (specification SpecFetch).    *)
(***************************************************************************)
LinkPreviewCalled == \E k \in 1..Len(fx.calls) : fx.calls[k] = "linkpreview"

\* C11: fetchUrlTitleViaLinkPreview issues no request and resolves with the
\* empty string when the key is absent or not exactly 32 characters long; a
\* request is issued only for a key of exactly 32 characters, and at most one
\* request per call.
C11_RequestOnlyForValidKey ==
    fx.pc # "none" =>
        /\ fx.requests <= 1
        /\ fx.requests > 0 =>
               LinkPreviewCalled /\ Len(settings.linkPreviewApiKey) = ApiKeyLength
        /\ (LinkPreviewCalled /\ Len(settings.linkPreviewApiKey) # ApiKeyLength) =>
               fx.requests = 0 /\ fx.apiResult = Str(<<>>)
        /\ (LinkPreviewCalled /\ Len(settings.linkPreviewApiKey) = ApiKeyLength) =>
               fx.requests = 1

\* fetchUrlTitleViaLinkPreview was called with a key of 31 characters and
\* returned the empty string without a request
C11_Witness ==
    /\ fx.pc = "awaitScraper"
    /\ LinkPreviewCalled
    /\ Len(settings.linkPreviewApiKey) = ApiKeyLength - 1
    /\ fx.requests = 0
    /\ fx.apiResult = Str(<<>>)

(***************************************************************************)
(* Texts as characters: a piece of a modelled URL is spelled out before    *)
(* the code looks at its characters.                                       *)
(***************************************************************************)
UpperCharacters == <<"A", "B", "C", "D", "E", "F", "G", "H", "I", "J", "K", "L", "M",
                     "N", "O", "P", "Q", "R", "S", "T", "U", "V", "W", "X", "Y", "Z">>

AlnumChars ==
    {HashCharacters[k] : k \in 1..Len(HashCharacters)}
    \cup {UpperCharacters[k] : k \in 1..Len(UpperCharacters)}

\* the i flag: a character is compared in lower case
toLowerChar(c) ==
    IF \E k \in 1..Len(UpperCharacters) : UpperCharacters[k] = c
    THEN HashCharacters[CHOOSE k \in 1..Len(UpperCharacters) : UpperCharacters[k] = c]
    ELSE c

Lower(s) == [k \in 1..Len(s) |-> toLowerChar(s[k])]

HttpChars == <<"h", "t", "t", "p", ":", "/", "/">>
HttpsChars == <<"h", "t", "t", "p", "s", ":", "/", "/">>
WwwChars == <<"w", "w", "w", ".">>

\* the characters of one piece of a modelled text
SpellPiece(piece) ==
    CASE piece = "https://" -> HttpsChars
      [] piece = "http://" -> HttpChars
      [] piece = "www." -> WwwChars
      [] piece = "h.io" -> <<"h", ".", "i", "o">>
      [] piece = "w.io" -> <<"w", ".", "i", "o">>
      [] piece = ".png" -> <<".", "p", "n", "g">>
      [] OTHER -> <<piece>>

RECURSIVE Spell(_)
Spell(text) == IF text = <<>> THEN <<>> ELSE SpellPiece(Head(text)) \o Spell(Tail(text))

StartsWith(s, prefix) == Len(s) >= Len(prefix) /\ SubSeq(s, 1, Len(prefix)) = prefix
EndsWith(s, suffix) ==
    Len(s) >= Len(suffix) /\ SubSeq(s, Len(s) - Len(suffix) + 1, Len(s)) = suffix

(***************************************************************************)
(* URLs of the scrapers: new URL(url), src/src/scraper/common.ts and the   *)
(* CheckIf methods of src/src/checkif.ts, lines 136-175.  A URL string is  *)
(* a sequence of pieces: a scheme, a host, then "/" and segments, a query  *)
(* ("?q") and a fragment ("#f").                                           *)
(***************************************************************************)
Hosts == {"twitter.com", "www.twitter.com", "x.com", "www.x.com", "X.com",
          "fxtwitter.com", "fixupx.com", "h.io"}

\* String.prototype.toLowerCase on a host
toLowerCase(host) == IF host = "X.com" THEN "x.com" ELSE host

IsQuery(piece) == piece = "?q"
IsFragment(piece) == piece = "#f"

\* the pieces of s from position k up to the first query or fragment
RECURSIVE PathFrom(_, _)
PathFrom(s, k) ==
    IF k > Len(s) \/ IsQuery(s[k]) \/ IsFragment(s[k]) THEN <<>>
    ELSE <<s[k]>> \o PathFrom(s, k + 1)

InvalidUrl == [ok |-> FALSE]

\* new URL(url): throws (InvalidUrl) without a scheme or with a host that holds
\* a forbidden character; an empty path of an http(s) URL is "/"
URL(url) ==
    IF \/ Len(url) < 2
       \/ url[1] \notin Schemes
       \/ url[2] \notin Hosts
       \/ Len(url) >= 3 /\ ~(url[3] = "/" \/ IsQuery(url[3]) \/ IsFragment(url[3]))
    THEN InvalidUrl
    ELSE LET path == PathFrom(url, 3)
             rest == SubSeq(url, 3 + Len(path), Len(url))
         IN [ok |-> TRUE,
             protocol |-> url[1],
             hostname |-> toLowerCase(url[2]),
             pathname |-> IF path = <<>> THEN <<"/">> ELSE path,
             search |-> SelectSeq(rest, IsQuery),
             hash |-> SelectSeq(rest, IsFragment)]

\* URL.prototype.toString
toString(urlObj) ==
    <<urlObj.protocol, urlObj.hostname>> \o urlObj.pathname \o urlObj.search \o urlObj.hash

\* normalizeUrl: url.startsWith("http")
normalizeUrl(url) ==
    IF StartsWith(Spell(url), <<"h", "t", "t", "p">>) THEN url ELSE <<"https://">> \o url

\* isTwitterUrl with a test of the end of the host name instead of equality
isTwitterUrlBySuffix(url) ==
    LET u == URL(url)
    IN IF ~u.ok THEN FALSE
       ELSE u.hostname \in {"twitter.com", "www.twitter.com", "x.com", "www.x.com",
                             "fxtwitter.com", "fixupx.com"}

isTwitterUrl(url) ==
    LET u == URL(url)
    IN IF ~u.ok THEN FALSE
       ELSE u.hostname \in {"twitter.com", "www.twitter.com", "x.com", "www.x.com"}

\* toTwitterProxyUrl with one mirror for both domains
toTwitterProxyUrlOneMirror(url) ==
    IF ~isTwitterUrl(url) THEN url
    ELSE toString([URL(url) EXCEPT !.hostname = "fxtwitter.com"])

toTwitterProxyUrl(url) ==
    IF ~isTwitterUrl(url) THEN url
    ELSE LET urlObj == URL(url)
             hostname == toLowerCase(urlObj.hostname)
         IN IF hostname \in {"twitter.com", "www.twitter.com"}
            THEN toString([urlObj EXCEPT !.hostname = "fxtwitter.com"])
            ELSE IF hostname \in {"x.com", "www.x.com"}
                 THEN toString([urlObj EXCEPT !.hostname = "fixupx.com"])
                 ELSE toString(urlObj)

UserAgent == <<"User-Agent", "ObsidianLinkPreview/1.0 (+https://obsidian.md)">>

\* prepareTwitterScrape that rewrites every Twitter/X URL, whatever the setting
prepareTwitterScrapeAlways(url, useTwitterProxy) ==
    LET isTwitter == isTwitterUrl(url)
    IN [scrapeUrl |-> IF isTwitter THEN toTwitterProxyUrl(url) ELSE url,
        headers |-> IF isTwitter THEN {UserAgent} ELSE {}]

prepareTwitterScrape(url, useTwitterProxy) ==
    LET isTwitter == isTwitterUrl(url)
    IN [scrapeUrl |-> IF isTwitter /\ useTwitterProxy THEN toTwitterProxyUrl(url) ELSE url,
        headers |-> IF isTwitter /\ useTwitterProxy THEN {UserAgent} ELSE {}]

File == <<"File">>

\* getUrlFinalSegment: segments.pop() || segments.pop(), then last ?? "File".
\* The empty string is falsy but not nullish.
getUrlFinalSegment(url) ==
    LET u == URL(url)
    IN IF ~u.ok THEN File
       ELSE LET segments == Split(u.pathname, {"/"})
                n == Len(segments)
                first == segments[n]
            IN IF first # <<>> THEN first
               ELSE IF n >= 2 THEN segments[n - 1] ELSE File

(***************************************************************************)
(* The scrapers: getPageTitle and scrape of the HTTP scraper               *)
(* (src/unnamed/part_003, strategy "http") and getPageTitle, tryGetFileType,*)
(* electronGetPageTitle, load and nonElectronGetPageTitle of               *)
(* src/src/scraper/electron.ts (strategy "electron").                      *)
(***************************************************************************)
NullV == [t |-> "null"]            \* null or undefined

SiteUnreachable == <<"Site Unreachable">>

\* the content-type header of a response ("none": no such header)
ContentTypes == {"text/html; charset=utf-8", "application/pdf", "none"}

\* contentType?.includes("text/html")
includesTextHtml(contentType) == contentType = "text/html; charset=utf-8"

\* the parsed document: the content of the og:title meta element (null without
\* the element or the attribute) and the title element (null without one)
OgContents == {NullV, Str(<<>>), Str(<<SP>>), Str(<<"O">>)}
TitleElements ==
    {NullV} \cup {[t |-> "element", innerText |-> x, noTitle |-> n] :
                     x \in {<<>>, <<"T">>}, n \in {NullV, Str(<<>>), Str(<<"N">>)}}
Docs == {[og |-> o, title |-> e] : o \in OgContents, e \in TitleElements}

\* window.webContents.getTitle()
PageTitles == {<<>>, <<"T">>}

\* require("electron"): not there; without remote; remote without BrowserWindow;
\* a BrowserWindow whose webContents has no setWindowOpenHandler; complete
ElectronPkgs == {"absent", "noRemote", "noBrowserWindow", "noWindowOpenHandler", "ok"}

ProbeOutcomes ==
    {[kind |-> "rejects"]}
    \cup {[kind |-> "response", ok |-> ok, contentType |-> c] : ok \in BOOLEAN, c \in ContentTypes}

RequestOutcomes ==
    {[kind |-> "rejects"]}
    \cup {[kind |-> "response", contentType |-> c, doc |-> d] : c \in ContentTypes, d \in Docs}

ScrapeUrls ==
    {<<"https://", "twitter.com", "/", "u", "?q", "#f">>,
     <<"www.twitter.com", "/", "u">>,
     <<"http://", "x.com">>,
     <<"https://", "www.x.com", "/", "u", "/">>,
     <<"https://", "X.com", "/", "u">>,
     <<"https://", "fxtwitter.com", "/", "u">>,
     <<"http://", "fixupx.com">>,
     <<"https://", "h.io">>,
     <<"https://", "h.io", "/">>,
     <<"https://", "h.io", "/", "file.pdf">>,
     <<"https://", "h.io", "/", "file.pdf", "/">>,
     <<"h.io", "/", "a", "?q">>,
     <<"not", SP, "a", SP, "url">>}

blank(text) == text = <<>>
notBlank(text) == ~blank(text)

getOgTitle(doc) == IF doc.og = NullV THEN <<>> ELSE doc.og.s

\* titleOfDocument with the title element preferred to og:title
titleOfDocumentTitleFirst(doc, url) ==
    IF doc.title # NullV /\ notBlank(doc.title.innerText) THEN doc.title.innerText
    ELSE IF notBlank(getOgTitle(doc)) THEN getOgTitle(doc)
         ELSE url

\* the title scrape and nonElectronGetPageTitle take from the parsed document
titleOfDocument(doc, url) ==
    LET ogTitle == getOgTitle(doc)
    IN IF notBlank(ogTitle) THEN ogTitle
       ELSE IF doc.title = NullV \/ blank(doc.title.innerText)
            THEN LET noTitle == IF doc.title = NullV THEN NullV ELSE doc.title.noTitle
                 IN IF Truthy(noTitle) /\ notBlank(noTitle.s) THEN noTitle.s ELSE url
            ELSE doc.title.innerText

\* tryGetFileType that does not look at response.ok
tryGetFileTypeAnyStatus(url, outcome) ==
    IF outcome.kind # "response" THEN NullV
    ELSE IF ~includesTextHtml(outcome.contentType) THEN Str(getUrlFinalSegment(url))
         ELSE NullV

\* tryGetFileType: the value it resolves with once the HEAD request has ended
tryGetFileType(url, outcome) ==
    IF outcome.kind # "response" THEN NullV
    ELSE IF ~outcome.ok THEN Str(SiteUnreachable)
         ELSE IF ~includesTextHtml(outcome.contentType) THEN Str(getUrlFinalSegment(url))
              ELSE NullV

\* return value; via tells which statement returned
returns(s, via, value) == [s EXCEPT !.pc = "returned", !.via = via, !.result = Str(value)]

\* finally without the destroy
finallySkipsDestroy(s) == s

\* the finally block of electronGetPageTitle
finally(s) ==
    IF s.window = "open"
    THEN [s EXCEPT !.window = "destroyed", !.destroyed = @ + 1]
    ELSE s

\* the catch block of electronGetPageTitle, then finally
catch(s) == finally(returns(s, "catch", <<>>))

\* lines 102-106 of electronGetPageTitle, then finally
readTitle(s, title) ==
    finally([returns(s, "getTitle", IF notBlank(title) THEN title ELSE s.nurl)
                EXCEPT !.title = Str(title), !.window = "null", !.destroyed = @ + 1])

\* electronGetPageTitle up to await load(window, url)
electronGetPageTitle(s) ==
    IF s.electron = "noRemote" THEN [s EXCEPT !.pc = "rejected"]
    ELSE IF s.electron = "noBrowserWindow" THEN catch(s)
    ELSE LET created == [s EXCEPT !.window = "open", !.created = @ + 1]
         IN IF s.electron = "noWindowOpenHandler" THEN catch(created)
            ELSE [created EXCEPT !.pc = "loading", !.timer = "pending",
                                 !.listeners = {"did-finish-load", "did-fail-load"}]

\* prepareTwitterScrape and the request of scrape / nonElectronGetPageTitle
request(s) ==
    LET prepared == prepareTwitterScrape(s.nurl, s.useTwitterProxy)
    IN [s EXCEPT !.pc = "requesting",
                 !.requests = Append(@, [method |-> "GET", url |-> prepared.scrapeUrl,
                                         headers |-> prepared.headers])]

\* routesToHttp that never takes the branch
routesToHttpNever(url) == FALSE

\* line 209 of the Electron getPageTitle
routesToHttp(url) == isTwitterUrl(url)

InitScrape ==
    /\ buffer = InitialDocument
    /\ selFrom = Len(InitialDocument)
    /\ selTo = Len(InitialDocument)
    /\ settings = DefaultSettings
    /\ inv = [i \in Inv |-> IdleInvocation]
    /\ notices = 0
    /\ edits = 0
    /\ fx = NoFetch
    /\ ui = NoUi
    /\ call = NoCall
    /\ \E strategy \in {"http", "electron"}, url \in ScrapeUrls, proxy \in BOOLEAN,
          pkg \in ElectronPkgs :
           /\ strategy = "http" => pkg = "absent"
           /\ scr = [pc |-> "ready", strategy |-> strategy, url |-> url, nurl |-> url,
                     useTwitterProxy |-> proxy, electron |-> pkg,
                     probes |-> 0, requests |-> <<>>, probe |-> None, response |-> None,
                     window |-> "null", created |-> 0, destroyed |-> 0,
                     resolved |-> FALSE, timer |-> "unset", ended |-> "none",
                     listeners |-> {}, settled |-> 0, lateTouch |-> FALSE,
                     abort |-> "unset",
                     title |-> None, via |-> "none", result |-> None]

\* getPageTitle(url, useTwitterProxy) is called and runs to its first await
GetPageTitle ==
    /\ scr.pc = "ready"
    /\ LET s == [scr EXCEPT !.nurl = normalizeUrl(scr.url)]
       IN IF s.strategy = "http" \/ routesToHttp(s.nurl)
          THEN scr' = request(s)
          ELSE scr' = [s EXCEPT !.pc = "probing", !.probes = @ + 1, !.abort = "pending",
                                !.requests = Append(@, [method |-> "HEAD", url |-> s.nurl,
                                                        headers |-> {}])]
    /\ UNCHANGED <<buffer, selFrom, selTo, settings, inv, notices, edits, fx, ui, call>>

\* the end of the HEAD request with clearTimeout only after a response
headEndsAnswered(s, outcome) ==
    [s EXCEPT !.probe = outcome,
              !.abort = IF outcome.kind = "response" THEN "cleared" ELSE @]

\* the end of the HEAD request in tryGetFileType: clearTimeout(timeoutId) after the
\* response and in the finally block
headEnds(s, outcome) == [s EXCEPT !.probe = outcome, !.abort = "cleared"]

\* lines 215-224 of getPageTitle once tryGetFileType has resolved
afterProbe(s, outcome) ==
    LET fileType == tryGetFileType(s.nurl, outcome)
    IN IF Truthy(fileType)
       THEN returns(s, "fileType", fileType.s)
       ELSE IF s.electron # "absent"
            THEN electronGetPageTitle(s)
            ELSE request(s)

\* the HEAD request of tryGetFileType is answered or fails (network, CORS)
ProbeSettles(outcome) ==
    /\ scr.pc = "probing"
    /\ scr' = afterProbe(headEnds(scr, outcome), outcome)
    /\ UNCHANGED <<buffer, selFrom, selTo, settings, inv, notices, edits, fx, ui, call>>

\* the abort timer fires after HEAD_TIMEOUT_MS: controller.abort() makes the
\* fetch reject
ProbeTimeout ==
    /\ scr.pc = "probing"
    /\ scr.abort = "pending"
    /\ scr' = afterProbe(headEnds(scr, [kind |-> "aborted"]), [kind |-> "aborted"])
    /\ UNCHANGED <<buffer, selFrom, selTo, settings, inv, notices, edits, fx, ui, call>>
    /\ UNCHANGED <<buffer, selFrom, selTo, settings, inv, notices, edits, fx, ui, call>>

\* the request of scrape / nonElectronGetPageTitle ends
RequestSettles(outcome) ==
    /\ scr.pc = "requesting"
    /\ LET s == [scr EXCEPT !.response = outcome]
       IN IF outcome.kind = "rejects"
          THEN scr' = returns(s, "catch", <<>>)
          ELSE IF s.strategy = "http" /\ ~includesTextHtml(outcome.contentType)
               THEN scr' = returns(s, "fileType", getUrlFinalSegment(s.nurl))
               ELSE scr' = returns(s, "html", titleOfDocument(outcome.doc, s.nurl))
    /\ UNCHANGED <<buffer, selFrom, selTo, settings, inv, notices, edits, fx, ui, call>>

\* cleanup of load() without resolved = true
cleanupForgetsResolved(s) ==
    [s EXCEPT !.listeners = {}, !.lateTouch = @ \/ s.window # "open"]

\* cleanup of load(): resolved = true and removeListener, twice, on
\* window.webContents, which has to be there
cleanup(s) ==
    [s EXCEPT !.resolved = TRUE, !.listeners = {}, !.lateTouch = @ \/ s.window # "open"]

\* cleanup(), then resolve() or reject(): the first call decides
settles(s, how) ==
    [cleanup(s) EXCEPT !.settled = @ + 1,
                       !.ended = IF @ = "none" THEN how ELSE @]

\* did-finish-load reaches onFinish while it is registered: it resolves load()
\* unless it is settled; electronGetPageTitle then reads the title
LoadFinish(title) ==
    /\ scr.pc \in {"loading", "returned"}
    /\ "did-finish-load" \in scr.listeners
    /\ scr' = IF scr.resolved THEN scr
              ELSE IF scr.pc = "loading" THEN readTitle(settles(scr, "finish"), title)
              ELSE settles(scr, "finish")
    /\ UNCHANGED <<buffer, selFrom, selTo, settings, inv, notices, edits, fx, ui, call>>

\* did-fail-load reaches onFail while it is registered: it rejects load() unless
\* it is settled; the catch block returns ""
LoadFail ==
    /\ scr.pc \in {"loading", "returned"}
    /\ "did-fail-load" \in scr.listeners
    /\ scr' = IF scr.resolved THEN scr
              ELSE IF scr.pc = "loading" THEN catch(settles(scr, "fail"))
              ELSE settles(scr, "fail")
    /\ UNCHANGED <<buffer, selFrom, selTo, settings, inv, notices, edits, fx, ui, call>>

\* LoadTimeout where the timer rejects load()
LoadTimeoutRejects(title) ==
    /\ scr.pc \in {"loading", "returned"}
    /\ scr.timer = "pending"
    /\ LET s == [scr EXCEPT !.timer = "fired"]
       IN scr' = IF s.resolved THEN s
                 ELSE IF s.pc = "loading" THEN catch(settles(s, "timeout"))
                 ELSE settles(s, "timeout")
    /\ UNCHANGED <<buffer, selFrom, selTo, settings, inv, notices, edits, fx, ui, call>>

\* the timer of load() fires after LOAD_TIMEOUT_MS: it resolves load() unless an
\* event has settled it; the timer is never cleared, so it also fires after the return
LoadTimeout(title) ==
    /\ scr.pc \in {"loading", "returned"}
    /\ scr.timer = "pending"
    /\ LET s == [scr EXCEPT !.timer = "fired"]
       IN scr' = IF s.resolved THEN s
                 ELSE IF s.pc = "loading" THEN readTitle(settles(s, "timeout"), title)
                 ELSE settles(s, "timeout")
    /\ UNCHANGED <<buffer, selFrom, selTo, settings, inv, notices, edits, fx, ui, call>>

NextScrape ==
    \/ GetPageTitle
    \/ \E outcome \in ProbeOutcomes : ProbeSettles(outcome)
    \/ ProbeTimeout
    \/ \E outcome \in RequestOutcomes : RequestSettles(outcome)
    \/ \E title \in PageTitles : LoadFinish(title)
    \/ LoadFail
    \/ \E title \in PageTitles : LoadTimeout(title)

SpecScrape == InitScrape /\ [][NextScrape]_vars

\* the timer of load() fires
SpecScrapeFair == SpecScrape /\ WF_vars(\E title \in PageTitles : LoadTimeout(title))

(***************************************************************************)
(* Properties of the scrapers (specifications SpecScrape, SpecScrapeFair). *)
(***************************************************************************)
Returned == scr.pc = "returned"

GetRequests == SelectSeq(scr.requests, LAMBDA r : r.method = "GET")

\* C12: every title strategy resolves and never rejects; a failure inside it
\* (request failure, page load failure, failing HEAD probe, missing or unusable
\* render capability) ends in the empty string or a sentinel string.
C12_StrategiesNeverReject ==
    /\ scr.pc # "rejected"
    /\ (Returned /\ scr.via = "catch") => scr.result = Str(<<>>)

\* C13: every BrowserWindow electronGetPageTitle created is destroyed by the time
\* the function has returned: load finished, load failed, load timed out, or an
\* exception after the window was created.
C13_WindowsDestroyed ==
    scr.pc \in {"returned", "rejected"} =>
        scr.destroyed = scr.created /\ scr.window # "open"

\* the load failed after the window was created, and the call has returned
C13_Witness ==
    Returned /\ scr.created = 1 /\ scr.destroyed = 1 /\ scr.ended = "fail"

\* an exception after the window was created (no setWindowOpenHandler)
C13_WitnessException ==
    Returned /\ scr.created = 1 /\ scr.destroyed = 1 /\ scr.electron = "noWindowOpenHandler"

Mirrors == {"fxtwitter.com", "fixupx.com"}

SocialCall == scr.strategy = "electron" /\ scr.pc # "ready" /\ isTwitterUrl(scr.nurl)

\* C15 as stated: for a twitter.com / x.com URL the Electron getPageTitle creates
\* no BrowserWindow and issues no HEAD probe, and the request of the HTTP path
\* goes to the rewritten (mirror) target.
C15_SocialAlwaysProxied ==
    SocialCall =>
        /\ scr.created = 0
        /\ scr.probes = 0
        /\ Len(scr.requests) = 1
        /\ scr.requests[1].method = "GET"
        /\ URL(scr.requests[1].url).hostname \in Mirrors

\* C15 amended: no BrowserWindow, no HEAD probe, one request of the HTTP path,
\* to the mirror when proxying is enabled and to the URL itself when it is not;
\* the result is what the HTTP path returns.
C15_SocialViaHttp ==
    SocialCall =>
        /\ scr.created = 0
        /\ scr.probes = 0
        /\ Len(scr.requests) = 1
        /\ scr.requests[1].method = "GET"
        /\ IF scr.useTwitterProxy
           THEN URL(scr.requests[1].url).hostname \in Mirrors
           ELSE scr.requests[1].url = scr.nurl
        /\ Returned => scr.via \in {"html", "catch"}

\* a Twitter URL, Electron at hand, proxying enabled: the title came from the
\* document the mirror answered with
C15_Witness ==
    /\ SocialCall /\ Returned
    /\ scr.electron = "ok"
    /\ scr.useTwitterProxy
    /\ scr.via = "html"
    /\ scr.result = Str(<<"O">>)

ProbeAnswered == scr.strategy = "electron" /\ scr.probe # None /\ scr.probe.kind = "response"

\* C16: when the HEAD probe of a non-social URL answers with a non-success status,
\* the Electron getPageTitle returns Site Unreachable, and after the probe it
\* creates no BrowserWindow and makes no further request.
C16_UnreachableSentinel ==
    (ProbeAnswered /\ ~scr.probe.ok) =>
        /\ Returned
        /\ scr.result = Str(SiteUnreachable)
        /\ scr.result # Str(<<>>)
        /\ scr.created = 0
        /\ Len(scr.requests) = 1
        /\ scr.requests[1].method = "HEAD"

C16_Witness ==
    /\ ProbeAnswered /\ ~scr.probe.ok
    /\ scr.electron = "ok"
    /\ ~isTwitterUrl(scr.nurl)
    /\ Returned /\ scr.result = Str(SiteUnreachable)

\* the last non-empty segment of the path of url, File without one or without a
\* URL that parses
LastSegmentOrFile(url) ==
    LET u == URL(url)
    IN IF ~u.ok THEN File
       ELSE LET segments == SelectSeq(Split(u.pathname, {"/"}), LAMBDA seg : seg # <<>>)
            IN IF segments = <<>> THEN File ELSE segments[Len(segments)]

NonHtmlAnswer ==
    \/ /\ scr.strategy = "http"
       /\ scr.response # None /\ scr.response.kind = "response"
       /\ ~includesTextHtml(scr.response.contentType)
    \/ /\ ProbeAnswered /\ scr.probe.ok
       /\ ~includesTextHtml(scr.probe.contentType)

\* C17: for a response that is not text/html the strategies return the last
\* non-empty segment of the URL path, or File without such a segment or without
\* a URL that parses; the value is never empty, so the resource is not scraped as
\* a page (no BrowserWindow, no page request after the probe).
C17_FinalSegmentOrFile ==
    NonHtmlAnswer =>
        /\ Returned
        /\ scr.result = Str(LastSegmentOrFile(scr.nurl))
        /\ scr.result # Str(<<>>)
        /\ scr.created = 0
        /\ Len(scr.requests) = 1

HtmlScraped == Returned /\ scr.via = "html"

Proxied == isTwitterUrl(scr.nurl) /\ scr.useTwitterProxy

\* C19: with proxying enabled prepareTwitterScrape maps twitter.com and
\* www.twitter.com to fxtwitter.com and x.com and www.x.com to fixupx.com; scheme,
\* path, query and fragment are those of the input, and the headers hold the
\* dedicated User-Agent.
C19_MirrorPerDomain ==
    (Proxied /\ Len(GetRequests) > 0) =>
        LET in == URL(scr.nurl)
            out == URL(GetRequests[1].url)
        IN /\ out.ok
           /\ in.hostname \in {"twitter.com", "www.twitter.com"} => out.hostname = "fxtwitter.com"
           /\ in.hostname \in {"x.com", "www.x.com"} => out.hostname = "fixupx.com"
           /\ out.protocol = in.protocol
           /\ out.pathname = in.pathname
           /\ out.search = in.search
           /\ out.hash = in.hash
           /\ UserAgent \in GetRequests[1].headers

\* an x.com URL was sent to fixupx.com
C19_Witness ==
    /\ Proxied /\ Len(GetRequests) > 0
    /\ URL(scr.nurl).hostname = "www.x.com"
    /\ GetRequests[1].url = <<"https://", "fixupx.com", "/", "u", "/">>

\* C20: prepareTwitterScrape and toTwitterProxyUrl never throw; for a host that
\* is not one of the four, with proxying disabled, or for a URL that does not
\* parse, the returned URL is the input verbatim and the header set is empty.
C20_VerbatimOtherwise ==
    /\ scr.strategy = "http" => scr.pc # "rejected"
    /\ (~isTwitterUrl(scr.nurl) /\ scr.pc # "ready") => toTwitterProxyUrl(scr.nurl) = scr.nurl
    /\ (~Proxied /\ Len(GetRequests) > 0) =>
           /\ GetRequests[1].url = scr.nurl
           /\ GetRequests[1].headers = {}

\* an x.com URL without a path, proxying disabled: requested as it was written
C20_Witness ==
    /\ isTwitterUrl(scr.nurl) /\ ~scr.useTwitterProxy
    /\ Len(GetRequests) > 0
    /\ GetRequests[1].url = <<"http://", "x.com">>
    /\ GetRequests[1].headers = {}

\* C21: the proxy rewrite is idempotent: rewriting a rewritten URL changes
\* nothing, and a URL whose host is fxtwitter.com or fixupx.com is returned (and
\* requested) unchanged, because isTwitterUrl is false for the mirrors.
C21_ProxyIdempotent ==
    scr.pc # "ready" =>
        /\ toTwitterProxyUrl(toTwitterProxyUrl(scr.nurl)) = toTwitterProxyUrl(scr.nurl)
        /\ (URL(scr.nurl).ok /\ URL(scr.nurl).hostname \in Mirrors) =>
               /\ ~isTwitterUrl(scr.nurl)
               /\ toTwitterProxyUrl(scr.nurl) = scr.nurl
               /\ Len(GetRequests) > 0 => GetRequests[1].url = scr.nurl
        /\ (Proxied /\ Len(GetRequests) > 0) =>
               /\ ~isTwitterUrl(GetRequests[1].url)
               /\ toTwitterProxyUrl(GetRequests[1].url) = GetRequests[1].url

\* a Twitter URL was rewritten for the request, and rewriting the request
\* target again gives the same target
C21_Witness ==
    /\ Proxied /\ Len(GetRequests) > 0
    /\ GetRequests[1].url # scr.nurl
    /\ URL(GetRequests[1].url).hostname = "fxtwitter.com"
    /\ toTwitterProxyUrl(GetRequests[1].url) = GetRequests[1].url

(***************************************************************************)
(* isBlacklisted over several blacklist settings: one invocation of        *)
(* convertUrlToTitledLink (specification SpecBlacklist).                   *)
(***************************************************************************)
\* settings.websiteBlacklist as the user can have typed it
WebsiteBlacklists ==
    {<<>>,
     <<",", NL, SP, ",">>,
     <<"w.io">>,
     <<"x.io", NL, "w.io">>,
     <<SP, "w.io", ",", NL, "x.io", SP>>,
     <<"x.io", ",", "y.io">>,
     <<"w.io", SP, "x.io">>,
     <<"https://", "h.io", ",">>}

InitBlacklist ==
    /\ buffer = InitialDocument
    /\ selFrom = Len(InitialDocument)
    /\ selTo = Len(InitialDocument)
    /\ \E better \in BOOLEAN, list \in WebsiteBlacklists :
           settings = [DefaultSettings EXCEPT !.useBetterPasteId = better,
                                              !.websiteBlacklist = list]
    /\ inv = [i \in Inv |-> IdleInvocation]
    /\ notices = 0
    /\ edits = 0
    /\ fx = NoFetch
    /\ scr = NoScrape
    /\ ui = NoUi
    /\ call = NoCall

NextBlacklist ==
    \/ \E url \in Urls : Call(1, url)
    \/ InsertDomainLink(1)
    \/ InsertPlaceholder(1)
    \/ \E title \in Titles(inv[1].url) : ApplyTitle(1, title)

SpecBlacklist == InitBlacklist /\ [][NextBlacklist]_vars

(***************************************************************************)
(* Properties of the blacklist (specifications SpecPaste, SpecBlacklist).  *)
(***************************************************************************)
Decided(i) == inv[i].pc \notin {"idle", "awaitBlacklist"}

\* the invocation took the branch of a blacklisted URL
TookBlacklistBranch(i) ==
    inv[i].pc = "rejected" \/ (inv[i].log # <<>> /\ inv[i].log[1] = "domain")

\* C22: for a blacklisted URL that isUrl accepts, convertUrlToTitledLink inserts
\* the link with the hostname as title and the URL as target, generates no
\* placeholder token and issues no request.
C22_BlacklistedDomainLink ==
    \A i \in Inv :
        (Decided(i) /\ isBlacklisted(inv[i].url, settings.websiteBlacklist)) =>
            /\ inv[i].pc = "done"
            /\ inv[i].log = <<"domain">>
            /\ inv[i].pasteId = <<>>
            /\ Includes(buffer, <<"[", inv[i].url[Len(inv[i].url)], "]", "(">>
                                 \o inv[i].url \o <<")">>)

\* the entries of a blacklist setting: the runs between commas and newlines,
\* trimmed, the empty ones left out
EntriesOf(list) ==
    LET IsSep(k) == k < 1 \/ k > Len(list) \/ list[k] \in {",", NL}
        runs == {<<a, b>> \in (1..Len(list)) \X (1..Len(list)) :
                    /\ a <= b
                    /\ IsSep(a - 1) /\ IsSep(b + 1)
                    /\ \A k \in a..b : ~IsSep(k)}
    IN {Trim(SubSeq(list, r[1], r[2])) : r \in runs} \ {<<>>}

\* C23: isBlacklisted(url) is true exactly when url contains an entry of the
\* blacklist setting (split on commas and newlines, trimmed, empty entries
\* discarded); an empty setting, or one of separators and whitespace only,
\* blacklists nothing.
C23_BlacklistedIffContainsEntry ==
    \A i \in Inv :
        Decided(i) =>
            /\ TookBlacklistBranch(i) <=>
                   \E e \in EntriesOf(settings.websiteBlacklist) : Includes(inv[i].url, e)
            /\ EntriesOf(settings.websiteBlacklist) = {} => ~TookBlacklistBranch(i)

\* a setting of separators and whitespace only: the URL got its placeholder
C23_Witness ==
    /\ settings.websiteBlacklist = <<",", NL, SP, ",">>
    /\ Decided(1)
    /\ inv[1].log[1] = "insert"

\* an entry after a newline blacklists the URL
C23_WitnessNewline ==
    /\ settings.websiteBlacklist = <<"x.io", NL, "w.io">>
    /\ Decided(1)
    /\ inv[1].log = <<"domain">>

(***************************************************************************)
(* The classifier: DEFAULT_SETTINGS.regex, linkRegex and imageRegex        *)
(* (src/unnamed/part_001, lines 35-43), CheckIf.isUrl, isImage and         *)
(* isLinkedUrl (src/src/checkif.ts), getUrlFromLink (src/src/main.ts) and  *)
(* stripAngleBrackets.  The expressions are matched character by           *)
(* character; a piece of a modelled URL is spelled out first.              *)
(***************************************************************************)
\* [a-zA-Z0-9][a-zA-Z0-9-]+[a-zA-Z0-9] (first and second alternative) or
\* [a-zA-Z0-9]+ (third and fourth)
LabelMatches(label) ==
    \/ /\ Len(label) >= 3
       /\ label[1] \in AlnumChars
       /\ label[Len(label)] \in AlnumChars
       /\ \A k \in 2..(Len(label) - 1) : label[k] \in AlnumChars \cup {"-"}
    \/ /\ Len(label) >= 1
       /\ \A k \in 1..Len(label) : label[k] \in AlnumChars

\* label, a dot, then two or more characters that are not white space, up to
\* the end.  No label character is a dot, so the label ends at the first dot.
HostAndRest(s) ==
    LET dots == {k \in 1..Len(s) : s[k] = "."}
    IN /\ dots # {}
       /\ LET d == CHOOSE k \in dots : \A j \in dots : k <= j
          IN /\ LabelMatches(SubSeq(s, 1, d - 1))
             /\ Len(s) - d >= 2
             /\ \A k \in (d + 1)..Len(s) : s[k] \notin WhiteSpace

\* after the scheme: www and a dot, or else text that does not start with www
AfterScheme(s) ==
    IF StartsWith(Lower(s), <<"w", "w", "w">>)
    THEN StartsWith(Lower(s), WwwChars) /\ HostAndRest(SubSeq(s, 5, Len(s)))
    ELSE HostAndRest(s)

\* the four alternatives of the URL expression match all of s
MatchesUrl(s) ==
    \/ StartsWith(Lower(s), HttpChars) /\ AfterScheme(SubSeq(s, Len(HttpChars) + 1, Len(s)))
    \/ StartsWith(Lower(s), HttpsChars) /\ AfterScheme(SubSeq(s, Len(HttpsChars) + 1, Len(s)))
    \/ StartsWith(Lower(s), WwwChars) /\ HostAndRest(SubSeq(s, Len(WwwChars) + 1, Len(s)))

\* isUrl with the expression of lineRegex, which has no anchors
isUrlUnanchored(text) ==
    LET s == Spell(text)
    IN \E a \in 1..Len(s) : \E b \in a..Len(s) : MatchesUrl(SubSeq(s, a, b))

\* CheckIf.isUrl: DEFAULT_SETTINGS.regex, anchored at both ends
isUrl(text) == MatchesUrl(Spell(text))

ImageExtensions ==
    {<<"g", "i", "f">>, <<"j", "p", "g">>, <<"j", "p", "e", "g">>, <<"t", "i", "f">>,
     <<"t", "i", "f", "f">>, <<"p", "n", "g">>, <<"w", "e", "b", "p">>, <<"b", "m", "p">>,
     <<"t", "g", "a">>, <<"p", "s", "d">>, <<"a", "i">>}

\* CheckIf.isImage: DEFAULT_SETTINGS.imageRegex
isImage(text) ==
    \E ext \in ImageExtensions : EndsWith(Lower(Spell(text)), <<".">> \o ext)

NoMatch == [ok |-> FALSE]

\* new RegExp(DEFAULT_SETTINGS.linkRegex).exec(link): an opening bracket, the
\* characters up to the first bracket, which has to be the closing one, an
\* opening parenthesis, a URL, and a closing parenthesis at the end
linkRegexExec(link) ==
    LET s == Spell(link)
        brackets == {k \in 2..Len(s) : s[k] \in {"[", "]"}}
    IN IF Len(s) = 0 \/ s[1] # "[" \/ brackets = {} THEN NoMatch
       ELSE LET c == CHOOSE k \in brackets : \A j \in brackets : k <= j
                url == SubSeq(s, c + 2, Len(s) - 1)
            IN IF /\ s[c] = "]"
                  /\ Len(s) >= c + 2
                  /\ s[c + 1] = "("
                  /\ s[Len(s)] = ")"
                  /\ MatchesUrl(url)
               THEN [ok |-> TRUE, g1 |-> SubSeq(s, 2, c - 1), g2 |-> url]
               ELSE NoMatch

\* CheckIf.isLinkedUrl
isLinkedUrl(text) == linkRegexExec(text).ok

\* getUrlFromLink that returns the first group
getUrlFromLinkFirstGroup(link) ==
    LET match == linkRegexExec(link)
    IN IF match.ok THEN match.g1 ELSE <<>>

\* getUrlFromLink: match?.[2] ?? ""
getUrlFromLink(link) ==
    LET match == linkRegexExec(link)
    IN IF match.ok THEN match.g2 ELSE <<>>

\* stripAngleBrackets that returns the trimmed text when nothing is stripped
stripAngleBracketsTrimmed(text) ==
    LET trimmed == Trim(text)
    IN IF StartsWith(trimmed, <<"<">>) /\ EndsWith(trimmed, <<">">>)
       THEN SubSeq(trimmed, 2, Len(trimmed) - 1)
       ELSE trimmed

\* stripAngleBrackets: trimmed.slice(1, -1) or the text itself
stripAngleBrackets(text) ==
    LET trimmed == Trim(text)
    IN IF StartsWith(trimmed, <<"<">>) /\ EndsWith(trimmed, <<">">>)
       THEN SubSeq(trimmed, 2, Len(trimmed) - 1)
       ELSE text

(***************************************************************************)
(* The pure functions applied to bounded families of inputs: one call,     *)
(* held in the variable call, is made and returns.                         *)
(***************************************************************************)
MaxLimit == 3
MaxContent == 4

\* what stands before the host of a classified text
Prefixes ==
    {<<>>, HttpChars, HttpsChars, WwwChars, HttpsChars \o WwwChars,
     <<"H", "T", "T", "P", "S", ":", "/", "/">>, <<"f", "t", "p", ":", "/", "/">>,
     <<SP>> \o HttpsChars}

\* first host labels
Labels ==
    {<<>>, <<"a">>, <<"a", "b">>, <<"a", "-", "b">>, <<"-", "a", "b">>, <<"a", "b", "-">>,
     <<"w", "w", "w", "x">>, <<"l", "o", "c", "a", "l", "h", "o", "s", "t">>}

\* what follows the first host label
Rests ==
    {<<>>, <<".", "c">>, <<".", "c", "o">>, <<".", "c", "o", ":", "8", "0">>,
     <<".", "c", "o", ":", "8", "0", "/", "p">>, <<":", "8", "0">>, <<"/", "p", ".", "c", "o">>,
     <<".", "c", "o", "/", "p", "?", "q", "#", "f">>, <<".", "c", SP, "o">>,
     <<".", "c", "o", NL>>, <<".", "c", "o", "/", "i", ".", "p", "n", "g">>}

ClassifiedTexts == {p \o l \o r : p \in Prefixes, l \in Labels, r \in Rests}

\* link titles, with and without brackets
LinkTitles == {<<>>, <<"t">>, <<"t", SP, "u">>, <<"t", "]", "u">>, <<"[", "t">>}

\* link targets, accepted or not by the classifier
LinkUrls ==
    {HttpsChars \o <<"a", "b", ".", "c", "o">>, WwwChars \o <<"a", ".", "c", "o">>,
     HttpChars \o <<"a", "-", "b", ".", "c", "o", "/", "p">>,
     HttpsChars \o <<"a", ".", "c", "o", ")">>, <<"a", ".", "c", "o">>,
     HttpsChars \o <<"a", ".", "c">>}

\* a link put together from its parts, any of which may be missing
LinkTexts ==
    {[open |-> o, title |-> t, middle |-> m, url |-> u, close |-> c] :
        o \in {<<>>, <<"[">>}, t \in LinkTitles,
        m \in {<<>>, <<"]">>, <<"]", "(">>}, u \in LinkUrls, c \in {<<>>, <<")">>}}

textOfLink(l) == l.open \o l.title \o l.middle \o l.url \o l.close

\* texts with and without angle brackets and surrounding white space
BracketTexts ==
    {lead \o o \o body \o c \o trail :
        lead \in {<<>>, <<SP>>, <<NL, SP>>}, o \in {<<>>, <<"<">>},
        body \in {<<>>, <<"a">>, <<"a", SP, "b">>, <<"a", ">", "b">>, HttpsChars \o <<"a", ".", "c", "o">>},
        c \in {<<>>, <<">">>}, trail \in {<<>>, <<SP>>}}

\* titles of every length up to three characters more than the largest limit
LimitedTitles == {SubSeq(HashCharacters, 1, n) : n \in 0..(MaxLimit + 4)}

RECURSIVE Contents(_)
Contents(n) ==
    IF n = 0 THEN {<<>>}
    ELSE Contents(n - 1)
         \cup {Append(c, x) : c \in {d \in Contents(n - 1) : Len(d) = n - 1}, x \in {"a", NL}}

MaxEscape == 3
MaxBase == 3

\* titles with and without characters of markdown and backslashes
RECURSIVE EscapeTitles(_)
EscapeTitles(n) ==
    IF n = 0 THEN {<<>>}
    ELSE EscapeTitles(n - 1)
         \cup {Append(t, x) : t \in {d \in EscapeTitles(n - 1) : Len(d) = n - 1},
                              x \in {"a", "[", "]", BS, "|"}}

\* base phrases of the placeholder
Bases == {SubSeq(FetchingPhrase, 1, n) : n \in 0..Min(MaxBase, Len(FetchingPhrase))}

Calls ==
    {[pc |-> "ready", fn |-> "isUrl", text |-> t] : t \in ClassifiedTexts}
    \cup {[pc |-> "ready", fn |-> "normalizeUrl", text |-> t] : t \in ClassifiedTexts}
    \cup {[pc |-> "ready", fn |-> "escapeMarkdown", title |-> t, maximumTitleLength |-> n] :
            t \in EscapeTitles(MaxEscape), n \in 0..MaxLimit}
    \cup {[pc |-> "ready", fn |-> "getPasteId", useBetterPasteId |-> b] : b \in BOOLEAN}
    \cup {[pc |-> "ready", fn |-> "getBetterPasteId", base |-> b] : b \in Bases}
    \cup {[pc |-> "ready", fn |-> f, link |-> l] :
            f \in {"isLinkedUrl", "getUrlFromLink"}, l \in LinkTexts}
    \cup {[pc |-> "ready", fn |-> "stripAngleBrackets", text |-> t] : t \in BracketTexts}
    \cup {[pc |-> "ready", fn |-> "shortTitle", title |-> t, maximumTitleLength |-> n] :
            t \in LimitedTitles, n \in 0..MaxLimit}
    \cup UNION {{[pc |-> "ready", fn |-> "getEditorPositionFromIndex", content |-> c, index |-> k] :
                    k \in 0..Len(c)} : c \in Contents(MaxContent)}

InitText ==
    /\ buffer = InitialDocument
    /\ selFrom = Len(InitialDocument)
    /\ selTo = Len(InitialDocument)
    /\ settings = DefaultSettings
    /\ inv = [i \in Inv |-> IdleInvocation]
    /\ notices = 0
    /\ edits = 0
    /\ fx = NoFetch
    /\ scr = NoScrape
    /\ ui = NoUi
    /\ call \in Calls

Returns(value) ==
    /\ call' = [pc |-> "returned", input |-> call, result |-> value]
    /\ UNCHANGED <<buffer, selFrom, selTo, settings, inv, notices, edits, fx, scr, ui>>

IsUrl ==
    /\ call.pc = "ready" /\ call.fn = "isUrl"
    /\ Returns(isUrl(call.text))

IsLinkedUrl ==
    /\ call.pc = "ready" /\ call.fn = "isLinkedUrl"
    /\ Returns(isLinkedUrl(textOfLink(call.link)))

GetUrlFromLink ==
    /\ call.pc = "ready" /\ call.fn = "getUrlFromLink"
    /\ Returns(getUrlFromLink(textOfLink(call.link)))

StripAngleBrackets ==
    /\ call.pc = "ready" /\ call.fn = "stripAngleBrackets"
    /\ Returns(stripAngleBrackets(call.text))

ShortTitle ==
    /\ call.pc = "ready" /\ call.fn = "shortTitle"
    /\ Returns(shortTitle(call.title, call.maximumTitleLength))

GetEditorPositionFromIndex ==
    /\ call.pc = "ready" /\ call.fn = "getEditorPositionFromIndex"
    /\ Returns(getEditorPositionFromIndex(call.content, call.index))

NormalizeUrl ==
    /\ call.pc = "ready" /\ call.fn = "normalizeUrl"
    /\ Returns(normalizeUrl(call.text))

\* convertUrlToTitledLink, lines 305 and 306: the title is escaped, then shortened
EscapeMarkdown ==
    /\ call.pc = "ready" /\ call.fn = "escapeMarkdown"
    /\ Returns([escapedTitle |-> escapeMarkdown(call.title),
                shortenedTitle |-> shortTitle(escapeMarkdown(call.title),
                                              call.maximumTitleLength)])

GetPasteId ==
    /\ call.pc = "ready" /\ call.fn = "getPasteId"
    /\ \E pasteId \in getPasteId(call.useBetterPasteId) : Returns(pasteId)

GetBetterPasteId ==
    /\ call.pc = "ready" /\ call.fn = "getBetterPasteId"
    /\ \E pasteId \in getBetterPasteId(call.base) : Returns(pasteId)

NextText ==
    \/ NormalizeUrl
    \/ EscapeMarkdown
    \/ GetPasteId
    \/ GetBetterPasteId
    \/ IsUrl
    \/ IsLinkedUrl
    \/ GetUrlFromLink
    \/ StripAngleBrackets
    \/ ShortTitle
    \/ GetEditorPositionFromIndex

SpecText == InitText /\ [][NextText]_vars

(***************************************************************************)
(* Properties of the classifier and of the pure functions (SpecText).      *)
(***************************************************************************)
Returned_(fn) == call.pc = "returned" /\ call.input.fn = fn

Digits == {"0", "1", "2", "3", "4", "5", "6", "7", "8", "9"}

\* number of characters of the http or https scheme s starts with, or 0
SchemeLen(s) ==
    IF StartsWith(Lower(s), HttpsChars) THEN Len(HttpsChars)
    ELSE IF StartsWith(Lower(s), HttpChars) THEN Len(HttpChars)
    ELSE 0

\* s from position from up to the first character of stops, or to the end
UpTo(s, from, stops) ==
    LET at == {k \in from..Len(s) : s[k] \in stops}
    IN IF at = {} THEN SubSeq(s, from, Len(s))
       ELSE SubSeq(s, from, (CHOOSE k \in at : \A j \in at : k <= j) - 1)

\* host and port of s, and the host alone
AuthorityOf(s) == UpTo(s, SchemeLen(s) + 1, {"/", "?", "#"})
HostOf(s) == UpTo(s, SchemeLen(s) + 1, {"/", "?", "#", ":"})

\* s is a URL with a scheme, a host and a colon and digits after the host
HasExplicitPort(s) ==
    /\ SchemeLen(s) > 0
    /\ HostOf(s) # <<>>
    /\ Len(AuthorityOf(s)) > Len(HostOf(s)) + 1
    /\ \A k \in (Len(HostOf(s)) + 2)..Len(AuthorityOf(s)) : AuthorityOf(s)[k] \in Digits

\* C25: isUrl returns false for every URL that carries an explicit port
\* after the host.
C25_PortUrlsRejected ==
    (Returned_("isUrl") /\ HasExplicitPort(call.input.text)) => call.result = FALSE

HasPrefix(s) == SchemeLen(s) > 0 \/ StartsWith(Lower(s), WwwChars)

\* C26: isUrl returns false for a string with neither an http or https
\* scheme nor a www. prefix, for a first host label that starts with a
\* hyphen, for a host without a dot, for the empty string and for a string
\* with a white space character anywhere.
C26_Rejections ==
    Returned_("isUrl") =>
        LET s == call.input.text
        IN (\/ ~HasPrefix(s)
            \/ s = <<>>
            \/ (HostOf(s) # <<>> /\ HostOf(s)[1] = "-")
            \/ (\A k \in 1..Len(HostOf(s)) : HostOf(s)[k] # ".")
            \/ (\E k \in 1..Len(s) : s[k] \in WhiteSpace))
           => call.result = FALSE

\* a URL whose first host label starts with a hyphen was classified
C26_Witness ==
    /\ Returned_("isUrl")
    /\ call.input.text = HttpsChars \o <<"-", "a", "b", ".", "c", "o">>
    /\ call.result = FALSE

\* a host without a dot was classified
C26_WitnessNoDot ==
    /\ Returned_("isUrl")
    /\ call.input.text = HttpsChars \o <<"l", "o", "c", "a", "l", "h", "o", "s", "t", ":", "8", "0">>
    /\ call.result = FALSE

\* the link is an opening bracket, a title without brackets, the two middle
\* characters, a URL the classifier accepts and a closing parenthesis
WellFormedLink(l) ==
    /\ l.open = <<"[">>
    /\ \A k \in 1..Len(l.title) : l.title[k] \notin {"[", "]"}
    /\ l.middle = <<"]", "(">>
    /\ isUrl(l.url)
    /\ l.close = <<")">>

\* the text lacks the opening bracket, the middle or the closing parenthesis
IncompleteLink(s) ==
    \/ ~StartsWith(s, <<"[">>)
    \/ ~EndsWith(s, <<")">>)
    \/ ~\E k \in 1..(Len(s) - 1) : s[k] = "]" /\ s[k + 1] = "("

\* C27: a link made of a title without brackets and a URL that isUrl accepts
\* is accepted by isLinkedUrl with the title as its first capture, and
\* getUrlFromLink returns the URL; a plain URL or an incomplete link is
\* rejected and getUrlFromLink returns the empty string.
C27_LinkRoundTrip ==
    /\ Returned_("isLinkedUrl") =>
          LET l == call.input.link
          IN /\ WellFormedLink(l) =>
                    (call.result = TRUE /\ linkRegexExec(textOfLink(l)).g1 = l.title)
             /\ IncompleteLink(textOfLink(l)) => call.result = FALSE
    /\ Returned_("getUrlFromLink") =>
          LET l == call.input.link
          IN /\ WellFormedLink(l) => call.result = l.url
             /\ IncompleteLink(textOfLink(l)) => call.result = <<>>

\* the URL of a well-formed link with a title was extracted
C27_Witness ==
    /\ Returned_("getUrlFromLink")
    /\ WellFormedLink(call.input.link)
    /\ call.input.link.title = <<"t", SP, "u">>
    /\ call.result = call.input.link.url

\* a plain URL was tested for being a link
C27_WitnessPlain ==
    /\ Returned_("isLinkedUrl")
    /\ isUrl(textOfLink(call.input.link))
    /\ call.result = FALSE

\* C28: stripAngleBrackets returns the trimmed text without its first and
\* last character when the trimmed text starts with the opening and ends
\* with the closing angle bracket, and the text as given otherwise.
C28_StripAngleBrackets ==
    Returned_("stripAngleBrackets") =>
        LET text == call.input.text
            trimmed == Trim(text)
            n == Len(trimmed)
        IN IF n >= 2 /\ trimmed[1] = "<" /\ trimmed[n] = ">"
           THEN /\ Len(call.result) = n - 2
                /\ \A k \in 1..(n - 2) : call.result[k] = trimmed[k + 1]
           ELSE call.result = text

\* a bracketed URL with white space around it was stripped
C28_Witness ==
    /\ Returned_("stripAngleBrackets")
    /\ call.input.text = <<SP, "<">> \o HttpsChars \o <<"a", ".", "c", "o", ">", SP>>
    /\ call.result = HttpsChars \o <<"a", ".", "c", "o">>

\* a text with white space and only the opening bracket came back as given
C28_WitnessUnchanged ==
    /\ Returned_("stripAngleBrackets")
    /\ call.input.text = <<SP, "<", "a">>
    /\ call.result = <<SP, "<", "a">>

\* C29: with limit 0 shortTitle returns the title; with a limit N above 0 a
\* title of N + 3 characters or more gives its first N characters and three
\* dots, a shorter one is returned unchanged, and no result is longer than
\* N + 3.
C29_ShortTitle ==
    Returned_("shortTitle") =>
        LET title == call.input.title
            N == call.input.maximumTitleLength
        IN /\ N = 0 => call.result = title
           /\ (N > 0 /\ Len(title) >= N + 3) =>
                  /\ Len(call.result) = N + 3
                  /\ \A k \in 1..N : call.result[k] = title[k]
                  /\ \A k \in (N + 1)..(N + 3) : call.result[k] = "."
           /\ (N > 0 /\ Len(title) < N + 3) => call.result = title
           /\ N > 0 => Len(call.result) <= N + 3

\* a title of exactly N + 3 characters was shortened
C29_Witness ==
    /\ Returned_("shortTitle")
    /\ call.input.maximumTitleLength > 0
    /\ Len(call.input.title) = call.input.maximumTitleLength + 3
    /\ call.result # call.input.title

\* the line breaks of content before index
BreaksBefore(content, index) == {k \in 1..index : content[k] = NL}

\* C30: getEditorPositionFromIndex returns as line the number of line breaks
\* before index and as ch the distance of index from the last of them (index
\* itself when there is none), and the position converts back to index.
C30_PositionRoundTrip ==
    Returned_("getEditorPositionFromIndex") =>
        LET content == call.input.content
            index == call.input.index
            breaks == BreaksBefore(content, index)
            last == IF breaks = {} THEN 0 ELSE CHOOSE k \in breaks : \A j \in breaks : j <= k
        IN /\ call.result.line = Cardinality(breaks)
           /\ call.result.ch = index - last
           /\ posToOffset(content, call.result) = index

\* the position of an index after two line breaks was computed
C30_Witness ==
    /\ Returned_("getEditorPositionFromIndex")
    /\ call.input.content = <<"a", NL, NL, "a">>
    /\ call.input.index = 4
    /\ call.result = [line |-> 2, ch |-> 1]

(***************************************************************************)
(* The entry points (src/src/main.ts): the paste and the drop handler, the *)
(* manual paste command and the command that adds a title to the URL or    *)
(* link at the cursor, with the editor helpers they use                    *)
(* (src/src/editor-enhancements.ts, src/src/checkif.ts).  Selections are   *)
(* made from left to right: the cursor is the end of the selection.        *)
(***************************************************************************)
MaxEvents == 1

DQ == "\""
SQ == "'"

\* editor.getCursor()
getCursor(doc, head) == getEditorPositionFromIndex(doc, head)

\* editor.getLine(line)
getLine(doc, line) ==
    LET start == LineStart(doc, line, 0)
    IN SubSeq(doc, start + 1, LineEnd(doc, start))

\* editor.getRange between two columns of the line of the cursor
getRange(doc, head, fromCh, toCh) ==
    LET line == getLine(doc, getCursor(doc, head).line)
    IN SubSeq(line, Max(fromCh, 0) + 1, Min(toCh, Len(line)))

isMarkdownLinkAlready(doc, head) ==
    LET cursor == getCursor(doc, head)
    IN getRange(doc, head, cursor.ch - 2, cursor.ch) = <<"]", "(">>

isAfterQuote(doc, head) ==
    LET cursor == getCursor(doc, head)
        beforeChar == getRange(doc, head, cursor.ch - 1, cursor.ch)
    IN beforeChar = <<DQ>> \/ beforeChar = <<SQ>>

\* last position of the run without white space that position k of line is in
RunEnd(line, k) ==
    LET spaces == {j \in k..Len(line) : line[j] \in WhiteSpace}
    IN IF spaces = {} THEN Len(line) ELSE (CHOOSE j \in spaces : \A i \in spaces : j <= i) - 1

\* lineRegex matches at position k of line; the match runs to the next white space
UrlAt(line, k) == MatchesUrl(Spell(SubSeq(line, k, RunEnd(line, k))))

\* lineText.matchAll(lineRegex): start and end column of every match
urlsInLine(line) ==
    {<<k - 1, RunEnd(line, k)>> :
        k \in {j \in 1..Len(line) :
                 /\ UrlAt(line, j)
                 /\ ~\E i \in 1..(j - 1) : UrlAt(line, i) /\ RunEnd(line, i) >= j}}

\* the closing parentheses that can end a match of linkLineRegex starting at k
LinkClosers(line, k) ==
    LET brackets == {j \in (k + 1)..Len(line) : line[j] \in {"[", "]"}}
    IN IF line[k] # "[" \/ brackets = {} THEN {}
       ELSE LET c == CHOOSE j \in brackets : \A i \in brackets : j <= i
            IN IF line[c] # "]" \/ c + 2 > Len(line) \/ line[c + 1] # "(" THEN {}
               ELSE {q \in (c + 2)..RunEnd(line, c + 2) :
                        line[q] = ")" /\ MatchesUrl(Spell(SubSeq(line, c + 2, q - 1)))}

\* the greedy URL part gives back as little as it has to
LinkEnd(line, k) ==
    CHOOSE q \in LinkClosers(line, k) : \A r \in LinkClosers(line, k) : r <= q

\* lineText.matchAll(linkLineRegex): start and end column of every match
linksInLine(line) ==
    {<<k - 1, LinkEnd(line, k)>> :
        k \in {j \in 1..Len(line) :
                 /\ LinkClosers(line, j) # {}
                 /\ ~\E i \in 1..(j - 1) : LinkClosers(line, i) # {} /\ LinkEnd(line, i) >= j}}

cursorWithinBoundaries(cursor, match) == match[1] <= cursor.ch /\ cursor.ch <= match[2]

\* the first of the matches, in the order of the line
First(matches) == CHOOSE m \in matches : \A n \in matches : m[1] <= n[1]

\* the boundaries of the first link the cursor is within, else of the first
\* URL, else the cursor
boundariesOf(start, head, links, urls) ==
    IF links # {}
    THEN [start |-> start + First(links)[1], end |-> start + First(links)[2]]
    ELSE IF urls # {}
    THEN [start |-> start + First(urls)[1], end |-> start + First(urls)[2]]
    ELSE [start |-> head, end |-> head]

\* getWordBoundaries for the cursor on the given line, as offsets of the document
boundariesOnLine(doc, head, cursor, line) ==
    boundariesOf(LineStart(doc, cursor.line, 0), head,
                 {m \in linksInLine(line) : cursorWithinBoundaries(cursor, m)},
                 {m \in urlsInLine(line) : cursorWithinBoundaries(cursor, m)})

boundariesAt(doc, head, cursor) == boundariesOnLine(doc, head, cursor, getLine(doc, cursor.line))

getWordBoundaries(doc, head) == boundariesAt(doc, head, getCursor(doc, head))

\* the selection and its text
selection(doc, from, to) == [selFrom |-> from, selTo |-> to, text |-> SubSeq(doc, from + 1, to)]

selectWord(doc, wordBoundaries) == selection(doc, wordBoundaries.start, wordBoundaries.end)

\* EditorExtensions.getSelectedText: the selection it leaves and the text
getSelectedText(doc, from, to) ==
    IF from # to THEN selection(doc, from, to)
    ELSE selectWord(doc, getWordBoundaries(doc, to))

\* the pieces of text that spell chars
PiecesOf(text, chars) ==
    LET spans == {ab \in (1..(Len(text) + 1)) \X (0..Len(text)) :
                    Spell(SubSeq(text, ab[1], ab[2])) = chars}
    IN IF spans = {} THEN <<>>
       ELSE LET ab == CHOOSE x \in spans : TRUE IN SubSeq(text, ab[1], ab[2])

\* what a handler did: the document and selection it leaves, whether it showed
\* a notice, whether it stopped the event, and the URL it converts, if any
Effect(doc, from, to, notice, stopped, convert, url, outcome) ==
    [buffer |-> doc, selFrom |-> from, selTo |-> to, notice |-> notice,
     stopped |-> stopped, convert |-> convert, url |-> url, outcome |-> outcome]

\* nothing done
Ignored(outcome) == Effect(buffer, selFrom, selTo, FALSE, FALSE, FALSE, <<>>, outcome)

\* editor.replaceSelection(text) and return
Inserted(text, stopped, notice, outcome) ==
    LET ed == replaceSelection(text)
    IN Effect(ed.buffer, ed.selFrom, ed.selTo, notice, stopped, FALSE, <<>>, outcome)

\* linkOrConvert that never keeps the selection as the title
linkOrConvertAlways(text, stopped, sel, selectedText) ==
    Effect(buffer, sel.selFrom, sel.selTo, FALSE, stopped, TRUE, text, "convert")

\* a link with the selection as its title, or convertUrlToTitledLink
linkOrConvert(text, stopped, sel, selectedText) ==
    IF selectedText # <<>> /\ settings.shouldPreserveSelectionAsTitle
    THEN Effect(Splice(buffer, sel.selFrom, sel.selTo,
                       <<"[">> \o selectedText \o <<"]", "(">> \o text \o <<")">>),
                sel.selFrom + Len(selectedText) + Len(text) + 4,
                sel.selFrom + Len(selectedText) + Len(text) + 4,
                FALSE, stopped, FALSE, <<>>, "preserved")
    ELSE Effect(buffer, sel.selFrom, sel.selTo, FALSE, stopped, TRUE, text, "convert")

withSelection(text, stopped, sel) == linkOrConvert(text, stopped, sel, Trim(sel.text))

\* the handlers from the test of the characters before the cursor on: the
\* text as it is, a link with the selection as title, or convertUrlToTitledLink
TakeOver(text, stopped) ==
    IF isMarkdownLinkAlready(buffer, selTo) \/ isAfterQuote(buffer, selTo)
    THEN Inserted(text, stopped, FALSE, "raw")
    ELSE withSelection(text, stopped, getSelectedText(buffer, selFrom, selTo))

\* handleEvent without stopPropagation and preventDefault
handleEventUnstopped(enabled, defaultPrevented, text) ==
    IF ~enabled THEN Ignored("disabled")
    ELSE IF defaultPrevented THEN Ignored("prevented")
    ELSE IF text = <<>> THEN Ignored("empty")
    ELSE IF ~isUrl(text) \/ isImage(text) THEN Ignored("notUrl")
    ELSE IF ~ui.onLine
    THEN Effect(buffer, selFrom, selTo, TRUE, FALSE, FALSE, <<>>, "offline")
    ELSE TakeOver(text, FALSE)

\* pasteUrlWithTitle and dropUrlWithTitle: enabled is the setting of the handler
handleEvent(enabled, defaultPrevented, text) ==
    IF ~enabled THEN Ignored("disabled")
    ELSE IF defaultPrevented THEN Ignored("prevented")
    ELSE IF text = <<>> THEN Ignored("empty")
    ELSE IF ~isUrl(text) \/ isImage(text) THEN Ignored("notUrl")
    ELSE IF ~ui.onLine
    THEN Effect(buffer, selFrom, selTo, TRUE, FALSE, FALSE, <<>>, "offline")
    ELSE TakeOver(text, TRUE)

\* manualPasteUrlWithTitle after the clipboard was read
manualPaste(clipboardText) ==
    IF ~ui.onLine THEN Inserted(clipboardText, FALSE, TRUE, "offline")
    ELSE IF clipboardText = <<>> THEN Ignored("empty")
    ELSE IF ~isUrl(clipboardText) \/ isImage(clipboardText)
    THEN Inserted(clipboardText, FALSE, FALSE, "notUrl")
    ELSE TakeOver(clipboardText, FALSE)

\* addTitleToLink from line 93 on: the URL at the cursor is converted before
\* navigator.onLine is looked at, the URL of a link only after
addTitleTo(sel, selectedText) ==
    IF isUrl(selectedText)
    THEN Effect(buffer, sel.selFrom, sel.selTo, ~ui.onLine, FALSE, TRUE, selectedText,
                IF ui.onLine THEN "convert" ELSE "offline")
    ELSE IF ~ui.onLine
    THEN Effect(buffer, sel.selFrom, sel.selTo, TRUE, FALSE, FALSE, <<>>, "offline")
    ELSE IF isLinkedUrl(selectedText)
    THEN Effect(buffer, sel.selFrom, sel.selTo, FALSE, FALSE, TRUE,
                PiecesOf(selectedText, getUrlFromLink(selectedText)), "convert")
    ELSE Effect(buffer, sel.selFrom, sel.selTo, FALSE, FALSE, FALSE, <<>>, "nothing")

addTitleOf(sel) == addTitleTo(sel, Trim(sel.text))

\* addTitleToLink
addTitle == addTitleOf(getSelectedText(buffer, selFrom, selTo))

\* the invocation that the next call of convertUrlToTitledLink is
NextInvocation == CHOOSE i \in Inv : inv[i].pc = "idle" /\ \A j \in Inv : j < i => inv[j].pc # "idle"

\* the handler of an event of the given type ran with the effect e
Handled(type, text, defaultPrevented, effect) ==
    /\ Len(ui.events) < MaxEvents
    /\ \E i \in Inv : inv[i].pc = "idle"
    /\ \E e \in {effect} :
        /\ buffer' = e.buffer
        /\ selFrom' = e.selFrom
        /\ selTo' = e.selTo
        /\ notices' = IF e.notice THEN notices + 1 ELSE notices
        /\ ui' = [ui EXCEPT !.events = Append(@, [type |-> type, text |-> text,
                                                  defaultPrevented |-> defaultPrevented \/ e.stopped,
                                                  stopped |-> e.stopped,
                                                  notice |-> e.notice,
                                                  before |-> buffer,
                                                  from |-> selFrom,
                                                  to |-> selTo,
                                                  after |-> e.buffer,
                                                  invocation |-> IF e.convert
                                                                 THEN NextInvocation
                                                                 ELSE 0,
                                                  outcome |-> e.outcome])]
        /\ inv' = IF e.convert
                  THEN [inv EXCEPT ![NextInvocation].pc = "awaitBlacklist",
                                   ![NextInvocation].url = e.url]
                  ELSE inv
    /\ UNCHANGED <<settings, edits, fx, scr, call>>

PasteUrlWithTitle(text, defaultPrevented) ==
    Handled("paste", text, defaultPrevented,
            handleEvent(settings.enhanceDefaultPaste, defaultPrevented, text))

DropUrlWithTitle(text, defaultPrevented) ==
    Handled("drop", text, defaultPrevented,
            handleEvent(settings.enhanceDropEvents, defaultPrevented, text))

ManualPasteUrlWithTitle(clipboardText) ==
    Handled("manualPaste", clipboardText, FALSE, manualPaste(clipboardText))

AddTitleToLink == Handled("addTitle", <<>>, FALSE, addTitle)

\* what the clipboard or the dragged item holds
ClipboardTexts ==
    {<<>>, <<"h.io">>, <<"https://", "h.io">>, <<"https://", "w.io">>, <<"www.", "w.io">>,
     <<"https://", "h.io", "/", "i", ".png">>}

\* the document with its selection when the user pastes, drops or runs a command
Scenes ==
    {[buffer |-> <<"x", NL>>, selFrom |-> 2, selTo |-> 2],
     [buffer |-> <<"https://", "h.io">>, selFrom |-> 1, selTo |-> 1],
     [buffer |-> <<"x", SP, "https://", "w.io">>, selFrom |-> 2, selTo |-> 4],
     [buffer |-> <<"[", "t", "]", "(", "https://", "h.io", ")">>, selFrom |-> 5, selTo |-> 5],
     [buffer |-> <<"[", "t", "]", "(">>, selFrom |-> 4, selTo |-> 4],
     [buffer |-> <<"=", DQ>>, selFrom |-> 2, selTo |-> 2],
     [buffer |-> <<"s", "e">>, selFrom |-> 0, selTo |-> 2],
     [buffer |-> <<"x", SP>>, selFrom |-> 1, selTo |-> 2]}

InitEntry ==
    /\ \E scene \in Scenes :
           /\ buffer = scene.buffer
           /\ selFrom = scene.selFrom
           /\ selTo = scene.selTo
    /\ \E paste \in BOOLEAN, drop \in BOOLEAN, preserve \in BOOLEAN :
           settings = [DefaultSettings EXCEPT !.enhanceDefaultPaste = paste,
                                              !.enhanceDropEvents = drop,
                                              !.shouldPreserveSelectionAsTitle = preserve,
                                              !.websiteBlacklist = <<"w.io">>]
    /\ inv = [i \in Inv |-> IdleInvocation]
    /\ notices = 0
    /\ edits = 0
    /\ fx = NoFetch
    /\ scr = NoScrape
    /\ \E onLine \in BOOLEAN : ui = [onLine |-> onLine, events |-> <<>>]
    /\ call = NoCall

NextEntry ==
    \/ \E text \in ClipboardTexts, defaultPrevented \in BOOLEAN :
           PasteUrlWithTitle(text, defaultPrevented)
    \/ \E text \in ClipboardTexts, defaultPrevented \in BOOLEAN :
           DropUrlWithTitle(text, defaultPrevented)
    \/ \E clipboardText \in ClipboardTexts : ManualPasteUrlWithTitle(clipboardText)
    \/ AddTitleToLink
    \/ \E i \in Inv : InsertDomainLink(i)
    \/ \E i \in Inv : InsertPlaceholder(i)
    \/ \E i \in Inv : \E title \in Titles(inv[i].url) : ApplyTitle(i, title)

SpecEntry == InitEntry /\ [][NextEntry]_vars

\* the continuation of convertUrlToTitledLink runs once isBlacklisted has resolved
SpecEntryFair ==
    /\ SpecEntry
    /\ WF_vars(\E i \in Inv : InsertDomainLink(i))
    /\ WF_vars(\E i \in Inv : InsertPlaceholder(i))

\* C24: while navigator.onLine is false no entry point inserts a placeholder
\* or starts a title fetch; the handler that met a URL shows the notice.
C24_OfflineNoFetch ==
    ~ui.onLine =>
        /\ \A i \in Inv : \A k \in 1..Len(inv[i].log) : inv[i].log[k] \notin {"insert", "request"}
        /\ \A k \in 1..Len(ui.events) : ui.events[k].outcome = "offline" => ui.events[k].notice

\* the scheme of s and what follows it
HasOneScheme(s) ==
    /\ SchemeLen(s) > 0
    /\ SchemeLen(SubSeq(s, SchemeLen(s) + 1, Len(s))) = 0

\* C32: a text that isUrl accepts leaves normalizeUrl with exactly one http
\* or https scheme: unchanged when it carries one, with https in front when
\* it carries none.
C32_OneScheme ==
    (Returned_("normalizeUrl") /\ isUrl(call.input.text)) =>
        /\ HasOneScheme(Spell(call.result))
        /\ SchemeLen(call.input.text) > 0 => Spell(call.result) = call.input.text
        /\ SchemeLen(call.input.text) = 0 => Spell(call.result) = HttpsChars \o call.input.text

\* the characters of s that no backslash escapes, a backslash and the
\* character after it read as one unit from left to right
RECURSIVE UnescapedChars(_)
UnescapedChars(s) ==
    IF s = <<>> THEN {}
    ELSE IF Head(s) = BS
    THEN (IF Len(s) = 1 THEN {BS} ELSE UnescapedChars(SubSeq(s, 3, Len(s))))
    ELSE {Head(s)} \cup UnescapedChars(Tail(s))

MarkdownSpecials == {"[", "]", "*", "_", BT, "|", "<", ">", "~", BS}

\* C39: the output of escapeMarkdown has no unescaped bracket, star,
\* underscore, backtick, bar, angle bracket, tilde or backslash, and the
\* title shortened by shortTitle has no unescaped bracket.
C39_NothingUnescaped ==
    Returned_("escapeMarkdown") =>
        /\ UnescapedChars(call.result.escapedTitle) \cap MarkdownSpecials = {}
        /\ UnescapedChars(call.result.shortenedTitle) \cap {"[", "]"} = {}

\* a title with an escaped bracket and a bar was escaped
C39_Witness ==
    /\ Returned_("escapeMarkdown")
    /\ call.input.title = <<BS, "[", "|">>
    /\ call.result.escapedTitle = <<BS, "[", BS, "|">>

\* the truncation cut an escaped bracket in two
C39_WitnessCut ==
    /\ Returned_("escapeMarkdown")
    /\ call.input.title = <<"[", "[">>
    /\ call.input.maximumTitleLength = 1
    /\ call.result.shortenedTitle = <<BS, ".", ".", ".">>

\* s without its zero-width spaces
RECURSIVE Visible(_)
Visible(s) ==
    IF s = <<>> THEN <<>>
    ELSE (IF Head(s) = ZWSP THEN <<>> ELSE <<Head(s)>>) \o Visible(Tail(s))

\* pasteId is base with at most two zero-width spaces after each character
\* and none anywhere else
InterleavedFrom(pasteId, base) ==
    /\ Visible(pasteId) = base
    /\ pasteId # <<>> => pasteId[1] # ZWSP
    /\ \A k \in 1..(Len(pasteId) - 2) :
           ~(pasteId[k] = ZWSP /\ pasteId[k + 1] = ZWSP /\ pasteId[k + 2] = ZWSP)
    /\ Len(base) <= Len(pasteId)
    /\ Len(pasteId) <= 3 * Len(base)

\* C40: without useBetterPasteId the token is the base phrase, a hash sign
\* and four characters from a to z and 0 to 9; with it the token is the base
\* phrase with at most two zero-width spaces after each character.
C40_PasteIdShape ==
    /\ (Returned_("getPasteId") /\ ~call.input.useBetterPasteId) =>
          /\ Len(call.result) = Len(Base) + 5
          /\ SubSeq(call.result, 1, Len(Base) + 1) = Base \o <<"#">>
          /\ \A k \in (Len(Base) + 2)..Len(call.result) :
                 \E j \in 1..Len(HashCharacters) : call.result[k] = HashCharacters[j]
    /\ (Returned_("getPasteId") /\ call.input.useBetterPasteId) =>
          InterleavedFrom(call.result, Base)
    /\ Returned_("getBetterPasteId") => InterleavedFrom(call.result, call.input.base)

\* a token with two, no and one zero-width space after its three characters
C40_Witness ==
    /\ Returned_("getBetterPasteId")
    /\ call.input.base = <<"F", "e", "t">>
    /\ call.result = <<"F", ZWSP, ZWSP, "e", "t", ZWSP>>

\* a token with a hash
C40_WitnessHash ==
    /\ Returned_("getPasteId")
    /\ ~call.input.useBetterPasteId
    /\ Len(call.result) = Len(Base) + 5

\* ---------------------------------------------------------------------
\* load() settles once (src/scraper/electron.ts, load)

\* C37: the promise of load() settles exactly once: the first of
\* did-finish-load, did-fail-load and the timer decides the outcome, both
\* listeners are removed at that moment, and an event or the timer that comes
\* later, after the window is destroyed too, neither resolves or rejects again
\* nor touches the window.
C37_SettlesOnce ==
    /\ [](/\ scr.settled <= 1
          /\ (scr.settled = 1) = scr.resolved
          /\ scr.resolved => scr.listeners = {}
          /\ (scr.settled = 1) = (scr.ended # "none")
          /\ ~scr.lateTouch)
    /\ [][scr.resolved =>
            /\ scr'.ended = scr.ended
            /\ scr'.settled = scr.settled
            /\ scr'.listeners = scr.listeners
            /\ (scr.pc = "returned" =>
                  /\ scr'.result = scr.result
                  /\ scr'.window = scr.window
                  /\ scr'.destroyed = scr.destroyed)]_vars

\* an event settled load(), the window is destroyed, and the timer fired later
C37_Witness ==
    /\ scr.pc = "returned"
    /\ scr.ended \in {"finish", "fail"}
    /\ scr.timer = "fired"
    /\ scr.window # "open"
    /\ scr.settled = 1

\* the timer settled load() before any event
C37_WitnessTimeout ==
    /\ scr.pc = "returned"
    /\ scr.ended = "timeout"
    /\ scr.settled = 1

\* ---------------------------------------------------------------------
\* the HEAD probe that fails (src/scraper/electron.ts, tryGetFileType)

ProbeFailed == scr.probe # None /\ scr.probe.kind \in {"rejects", "aborted"}

C38_WitnessRequest ==
    /\ scr.probe = [kind |-> "rejects"]
    /\ scr.electron = "absent"
    /\ scr.pc = "returned"
    /\ scr.via = "html"

\* ---------------------------------------------------------------------
\* the placeholder write and the await before it (main.ts, convertUrlToTitledLink)

\* C33: between the moment a handler decides to fetch a title and the buffer
\* write of the placeholder there is no suspension point: while an invocation
\* has not written yet, no user edit, cursor move or other invocation changes
\* the buffer or the selection, so the placeholder lands at the selection that
\* was current when the event was handled.
C33_PlaceholderSynchronous ==
    [][\A i \in Inv :
          (inv[i].pc = "awaitBlacklist" /\ inv'[i].pc = "awaitBlacklist") =>
              /\ buffer' = buffer
              /\ selFrom' = selFrom
              /\ selTo' = selTo]_vars

\* ---------------------------------------------------------------------
\* events the handlers leave alone and events they take over (main.ts,
\* pasteUrlWithTitle and dropUrlWithTitle)

PasteOrDrop(ev) == ev.type \in {"paste", "drop"}
LeftAlone(ev) == ev.outcome \in {"disabled", "prevented", "empty", "notUrl", "offline"}
TakenOver(ev) == ev.outcome \in {"raw", "preserved", "convert"}

\* the editor's default handler inserts the text of an event that reaches it
\* without defaultPrevented
DefaultInsertions(ev) == IF ev.defaultPrevented THEN 0 ELSE 1

\* writes of the pasted text by the plugin: in the handler, or by the invocation
\* the handler started
PluginInsertions(ev) ==
    IF ev.outcome \in {"raw", "preserved"} THEN 1
    ELSE IF ev.invocation # 0 /\ inv[ev.invocation].log # <<>> THEN 1
    ELSE 0

\* C35: when the setting of the event is off, the event is defaultPrevented
\* already, the text is empty, not a URL or an image URL, or the client is
\* offline, pasteUrlWithTitle and dropUrlWithTitle do not change the buffer and
\* call neither preventDefault nor stopPropagation, so the text is inserted
\* once, by the default handler the event reaches; when they take the event
\* over, preventDefault has been called before any buffer write, so the text is
\* never inserted by both.
C35_LeftAloneOrTakenOver ==
    \A k \in 1..Len(ui.events) :
        LET ev == ui.events[k]
        IN PasteOrDrop(ev) =>
             /\ LeftAlone(ev) \/ TakenOver(ev)
             /\ LeftAlone(ev) =>
                   /\ ev.after = ev.before
                   /\ ~ev.stopped
                   /\ ev.outcome = "prevented" => ev.defaultPrevented
                   /\ ev.invocation = 0
                   /\ PluginInsertions(ev) = 0
                   /\ ev.outcome \in {"empty", "notUrl", "offline"} => DefaultInsertions(ev) = 1
             /\ TakenOver(ev) => ev.stopped /\ ev.defaultPrevented
             /\ (ev.after # ev.before \/ ev.invocation # 0) => ev.stopped
             /\ DefaultInsertions(ev) + PluginInsertions(ev) <= 1

\* a pasted URL left to the default handler while offline
C35_Witness ==
    /\ Len(ui.events) = 1
    /\ ui.events[1].type = "paste"
    /\ ui.events[1].outcome = "offline"
    /\ ui.events[1].text = <<"https://", "h.io">>
    /\ ui.events[1].after = ui.events[1].before
    /\ buffer = ui.events[1].before

\* a dropped URL taken over and written by the invocation
C35_WitnessTakenOver ==
    /\ Len(ui.events) = 1
    /\ ui.events[1].type = "drop"
    /\ ui.events[1].outcome = "convert"
    /\ ui.events[1].stopped
    /\ inv[1].pc = "fetching"
    /\ buffer # ui.events[1].before

\* ---------------------------------------------------------------------
\* the URL written as it is and the link that keeps the selection (main.ts,
\* pasteUrlWithTitle, dropUrlWithTitle, manualPasteUrlWithTitle)

\* the handler got as far as the test of the characters before the cursor
ReachedTakeOver(ev) ==
    /\ ev.type \in {"paste", "drop", "manualPaste"}
    /\ ev.outcome \in {"raw", "preserved", "convert"}

\* the link opener or a quote before the cursor when the event was handled
InsideLinkOrQuote(ev) ==
    isMarkdownLinkAlready(ev.before, ev.to) \/ isAfterQuote(ev.before, ev.to)

\* the text the user had selected when the event was handled
SelectedAt(ev) == SubSeq(ev.before, ev.from + 1, ev.to)

\* one write of written over the selection, nothing else then or later
OneDirectWrite(ev, written) ==
    /\ ev.after = Splice(ev.before, ev.from, ev.to, written)
    /\ ev.outcome # "convert"
    /\ ev.invocation = 0

LinkWithTitle(title, url) == <<"[">> \o title \o <<"]", "(">> \o url \o <<")">>

\* C36 as stated: with the link opener or a quote before the cursor the raw
\* URL is inserted, and with a non-empty selection and
\* shouldPreserveSelectionAsTitle a link with the selection as title; in each
\* case one buffer write, no placeholder, no request, no later mutation.
C36_DirectInsertions ==
    \A k \in 1..Len(ui.events) :
        LET ev == ui.events[k]
        IN ReachedTakeOver(ev) =>
             /\ InsideLinkOrQuote(ev) => OneDirectWrite(ev, ev.text)
             /\ (/\ ~InsideLinkOrQuote(ev)
                 /\ SelectedAt(ev) # <<>>
                 /\ settings.shouldPreserveSelectionAsTitle)
                  => OneDirectWrite(ev, LinkWithTitle(SelectedAt(ev), ev.text))

\* C36 (amended): the same, for a selection that holds more than white space;
\* the title is the selection without the white space around it.
C36_DirectInsertionsNotBlank ==
    \A k \in 1..Len(ui.events) :
        LET ev == ui.events[k]
        IN ReachedTakeOver(ev) =>
             /\ InsideLinkOrQuote(ev) => OneDirectWrite(ev, ev.text)
             /\ (/\ ~InsideLinkOrQuote(ev)
                 /\ Trim(SelectedAt(ev)) # <<>>
                 /\ settings.shouldPreserveSelectionAsTitle)
                  => OneDirectWrite(ev, LinkWithTitle(Trim(SelectedAt(ev)), ev.text))

\* a URL pasted over selected text with the setting on
C36_Witness ==
    /\ Len(ui.events) = 1
    /\ ui.events[1].type = "paste"
    /\ ui.events[1].outcome = "preserved"
    /\ ui.events[1].before = <<"s", "e">>
    /\ buffer = <<"[", "s", "e", "]", "(", "https://", "h.io", ")">>

\* a URL dropped after the link opener
C36_WitnessRaw ==
    /\ Len(ui.events) = 1
    /\ ui.events[1].type = "drop"
    /\ ui.events[1].outcome = "raw"
    /\ buffer = <<"[", "t", "]", "(", "https://", "h.io">>

\* ---------------------------------------------------------------------
\* the URL of an event the plugin took over (main.ts, pasteUrlWithTitle,
\* dropUrlWithTitle, convertUrlToTitledLink)

PreventedByPlugin ==
    /\ Len(ui.events) = 1
    /\ ui.events[1].type \in {"paste", "drop"}
    /\ ui.events[1].stopped

UrlInBuffer == Len(ui.events) = 1 /\ Includes(buffer, ui.events[1].text)

\* C34: whenever pasteUrlWithTitle or dropUrlWithTitle has called
\* preventDefault, the plugin eventually inserts a text that contains the
\* pasted URL, for every URL isUrl accepts and every blacklist; the URL is
\* never lost and no promise rejects.
C34_PastedUrlInserted ==
    /\ PreventedByPlugin ~> UrlInBuffer
    /\ [](\A i \in Inv : inv[i].pc # "rejected")

\* ---------------------------------------------------------------------
\* settings changed while an invocation is in flight (main.ts,
\* convertUrlToTitledLink; the setting tab)

\* the settings when the invocation starts
SettingsAtStart ==
    [DefaultSettings EXCEPT !.maximumTitleLength = 0, !.websiteBlacklist = WebsiteBlacklist]

InitSettings ==
    /\ buffer = InitialDocument
    /\ selFrom = Len(InitialDocument)
    /\ selTo = Len(InitialDocument)
    /\ settings = SettingsAtStart
    /\ inv = [i \in Inv |-> IdleInvocation]
    /\ notices = 0
    /\ edits = 0
    /\ fx = NoFetch
    /\ scr = NoScrape
    /\ ui = NoUi
    /\ call = NoCall

\* onChange of the setting tab: this.plugin.settings is assigned and saved
ChangeSettings(changed) ==
    /\ InFlight
    /\ changed # settings
    /\ settings' = changed
    /\ UNCHANGED <<buffer, selFrom, selTo, inv, notices, edits, fx, scr, ui, call>>

SettingsChanges ==
    \/ \E n \in MaximumTitleLengths :
           ChangeSettings([settings EXCEPT !.maximumTitleLength = n])
    \/ \E better \in BOOLEAN :
           ChangeSettings([settings EXCEPT !.useBetterPasteId = better])
    \/ \E blacklist \in {<<>>, WebsiteBlacklist} :
           ChangeSettings([settings EXCEPT !.websiteBlacklist = blacklist])

\* one invocation and the user at the setting tab
NextSettings ==
    \/ \E url \in Urls : Call(1, url)
    \/ InsertDomainLink(1)
    \/ InsertPlaceholder(1)
    \/ \E title \in Titles(inv[1].url) : ApplyTitle(1, title)
    \/ SettingsChanges

SpecSettings == InitSettings /\ [][NextSettings]_vars

\* C31: within one invocation the settings are a snapshot: the blacklist, the
\* placeholder mode and the maximum title length the invocation uses are the
\* values the settings had when it started, also when the user changes the
\* settings while the fetch is in flight.
C31_SettingsSnapshot ==
    LET url == inv[1].url
        blacklisted == isBlacklisted(url, SettingsAtStart.websiteBlacklist)
        shortenedTitle == shortTitle(escapeMarkdown(inv[1].title),
                                     SettingsAtStart.maximumTitleLength)
    IN /\ inv[1].log # <<>> =>
             IF blacklisted THEN inv[1].log = <<"domain">> ELSE inv[1].log[1] = "insert"
       /\ inv[1].pasteId # <<>> =>
             inv[1].pasteId \in getPasteId(SettingsAtStart.useBetterPasteId)
       /\ (inv[1].pc = "done" /\ inv[1].log = <<"insert", "request", "replace">>) =>
             Includes(buffer, LinkWithTitle(shortenedTitle, url))

====
